---- MODULE Spec2Model ----
(***************************************************************************)
(* Model of ascii_camera.py: the frame-to-text converter frame_to_ascii    *)
(* and the render loop of main() with its prompts, input polling,          *)
(* interrupt handling and cleanup.                                         *)
(***************************************************************************)
EXTENDS Integers, Sequences, FiniteSets, TLC

VARIABLES
  isWindows,    \* IS_WINDOWS
  isTTY,        \* sys.stdin.isatty()
  stderrShared, \* standard error is the file that standard output is: the
                \* same terminal, or the same pipe or file
  pc,           \* position of main()
  permission,   \* "pending" | "granted" | "declined"
  scheme,       \* key of the chosen ColorScheme, "0" while none is chosen
  retries,      \* answers rejected so far by the running choose_color_scheme
  capState,     \* "none" | "opened" | "failed" | "released"
  releases,     \* calls of cap.release()
  termMode,     \* input mode of the terminal: "cooked" | "cbreak"
  savedMode,    \* old_settings of raw_stdin, "none" before tcgetattr
  restores,     \* calls of termios.tcsetattr in raw_stdin's finally
  out,          \* written to sys.stdout and not yet flushed, as tokens
  term,         \* what the terminal received since its screen was last
                \* cleared or its cursor last sent to the top-left corner
  cursor,       \* "shown" | "hidden", as the terminal was last told
  shows,        \* writes of the show-cursor sequence
  line_buffering, \* sys.stdout.line_buffering
  buffer_size,  \* size in bytes of the buffer of sys.stdout.buffer
  err_prompt,   \* the prompt that the last input() wrote to standard error
                \* and not to sys.stdout, "" when it wrote none there
  err,          \* everything written to sys.stderr
  rc,           \* return value of main(), -1 while it has not returned
  exc,          \* exception in flight: "none" or its name
  ret,          \* ret of the last cap.read()
  frame,        \* frame of the current tick, NoFrame when there is none
  ascii_width,  \* ascii_width of the last conversion, 0 before the first
  ascii_frame,  \* result of the last frame_to_ascii
  osBuf,        \* keypresses pending in the console / on the stdin descriptor
  pyBuf,        \* characters held in sys.stdin's own read buffer
  stdinEOF,     \* the stdin descriptor is at end of file
  key,          \* what the poll of the current tick returned: "none" before
                \* it or without input, "" at end of file, else the character
  reads,        \* calls of cap.read()
  converts,     \* calls of frame_to_ascii
  draws,        \* frames written to sys.stdout
  polls,        \* input polls executed
  intrLog,      \* positions of main() at which an interrupt arrived
  columns,      \* current width of the terminal
  term_width,   \* term_width of the last conversion, 0 before the first
  calls,        \* the calls of frame_to_ascii made on its own, in order:
                \* arguments and result of each
  sample,       \* an 8-bit sample of the resized image
  glyph_index,  \* its index into ASCII_CHARS, -1 before it is computed
  color_index,  \* its index into the palette, -1 before it is computed
  local_resized,    \* the locals resized, lines, line_parts and last_code
  local_lines,      \* (NoCode for None) of the frame_to_ascii that runs on
  local_line_parts, \* its own, as its last statement left them
  local_last_code,
  row_no,       \* rows taken so far by the loop of line 82
  cell_no       \* cells of that row taken so far by the loop of line 85

vars == << isWindows, isTTY, stderrShared, pc, permission, scheme, retries, capState,
           releases, termMode, savedMode, restores, out, term, cursor, shows,
           line_buffering, buffer_size, err_prompt, err, rc, exc, ret, frame,
           ascii_width, ascii_frame, osBuf, pyBuf,
           stdinEOF, key, reads, converts, draws, polls, intrLog, columns,
           term_width, calls, sample, glyph_index, color_index, local_resized,
           local_lines, local_line_parts, local_last_code, row_no, cell_no >>

----------------------------------------------------------------------------
(* Bounds of the model *)

MaxTicks == 2
MaxKeys == 2
MaxInterrupts == 1
MaxRetries == 1

\* The tokens a terminal keeps of what it showed before its screen was first
\* cleared.
MaxScroll == 16

----------------------------------------------------------------------------
(* Output tokens *)

Tok(k) == [k |-> k, c |-> "", n |-> 0]
Text(s) == [k |-> "text", c |-> s, n |-> 0]
Glyph(ch) == [k |-> "ch", c |-> ch, n |-> 0]
ColorSwitch(code) == [k |-> "ESC[38;5;m", c |-> "", n |-> code]
Reset == Tok("ESC[0m")
Newline == Tok("NL")

IsEscape(t) == t.k \notin {"text", "ch", "NL"}

----------------------------------------------------------------------------
(* Constants of the program *)

\* The ramp of line 12, one string per character; the grave accent (index 3)
\* is spelled "grave" because it cannot be written in a string literal here.
ASCII_CHARS ==
  << " ", ".", "'", "grave", "^", "\"", ",", ":", ";", "I", "l", "!",
     "i", ">", "<", "~", "+", "_", "-", "?", "]", "[", "}", "{", "1", ")", "(", "|",
     "\\", "/", "*", "t", "f", "j", "r", "x", "n", "u", "v", "c", "z", "X",
     "Y", "U", "J", "C", "L", "Q", "0", "O", "Z", "m", "w", "q", "p", "d",
     "b", "k", "h", "a", "o", "*", "#", "M", "W", "&", "8", "%", "B", "@",
     "$" >>

COLOR_SCHEMES ==
  [ k \in {"1", "2", "3", "4"} |->
      CASE k = "1" -> [name |-> "Monochrome", mono |-> TRUE,
                       palette |-> << >>]
        [] k = "2" -> [name |-> "WarmSunset", mono |-> FALSE,
                       palette |-> << 52, 88, 124, 160, 166, 172, 178, 184,
                                      220, 226 >>]
        [] k = "3" -> [name |-> "NeonRainbow", mono |-> FALSE,
                       palette |-> << 21, 27, 33, 39, 45, 51, 93, 129, 165,
                                      201, 198, 214, 220 >>]
        [] k = "4" -> [name |-> "EmeraldGlow", mono |-> FALSE,
                       palette |-> << 22, 28, 34, 40, 46, 82, 118, 154, 190,
                                      226 >>] ]

DEFAULT_SCHEME_KEY == "1"

----------------------------------------------------------------------------
(* frame_to_ascii.  A frame is [h, w, px]: px[y][x] is the pixel <<b, g, r>> *)
(* of row y, column x; an array of shape (h, w, 3).                          *)

RoundHalfEven(n, d) ==
  LET q == n \div d
      r == n % d
  IN  IF 2 * r < d THEN q
      ELSE IF 2 * r > d THEN q + 1
      ELSE IF q % 2 = 0 THEN q ELSE q + 1

\* cv2.COLOR_BGR2GRAY on 8-bit samples: fixed point with 15 fractional bits.
ToGray(p) == (p[1] * 3735 + p[2] * 19235 + p[3] * 9798 + 16384) \div 32768

\* cv2.cvtColor raises cv2.error on an array without elements.
cvtColorFails(f) == f.h = 0 \/ f.w = 0

cvtColor(f) == [y \in 1..f.h |-> [x \in 1..f.w |-> ToGray(f.px[y][x])]]

\* The occupied bins of a histogram, lowest first.
RECURSIVE Ascending(_)
Ascending(S) ==
  IF S = {} THEN << >>
  ELSE LET m == CHOOSE v \in S : \A u \in S : v <= u
       IN  << m >> \o Ascending(S \ {m})

\* The lookup table of cv2.equalizeHist as pairs << value, new value >>, for
\* the bins above the lowest occupied one: sum counts the samples in the
\* bins already passed, scaled by 255 / (total - hist[lowest]) and rounded.
RECURSIVE EqualizeLut(_, _, _, _, _)
EqualizeLut(levels, hist, i, sum, denom) ==
  IF i > Len(levels) THEN << >>
  ELSE LET s == sum + hist[i]
       IN  << << levels[i], RoundHalfEven(255 * s, denom) >> >>
             \o EqualizeLut(levels, hist, i + 1, s, denom)

\* cv2.equalizeHist: the lowest occupied bin maps to 0, every other value
\* through the lookup table; an image with one occupied bin is unchanged.
equalizeHist(g, h, w) ==
  LET Cells == (1..h) \X (1..w)
      levels == Ascending({g[c[1]][c[2]] : c \in Cells})
      hist == [i \in 1..Len(levels) |->
                 Cardinality({c \in Cells : g[c[1]][c[2]] = levels[i]})]
      lut == << << levels[1], 0 >> >>
               \o EqualizeLut(levels, hist, 2, 0, h * w - hist[1])
      Map(v) == (CHOOSE p \in {lut[i] : i \in 1..Len(lut)} : p[1] = v)[2]
  IN  IF hist[1] = h * w THEN g
      ELSE [y \in 1..h |-> [x \in 1..w |-> Map(g[y][x])]]

\* Length of the part of source sample s (of n samples) that falls into
\* destination cell d (of m cells), in units of 1/(n*m) of the whole extent.
Overlap(s, d, n, m) ==
  LET lo == IF (s - 1) * m > (d - 1) * n THEN (s - 1) * m ELSE (d - 1) * n
      hi == IF s * m < d * n THEN s * m ELSE d * n
  IN  IF hi > lo THEN hi - lo ELSE 0

\* cv2.resize(gray, (w, rh), interpolation=cv2.INTER_AREA) of an h x ow image
\* when it does not enlarge (w <= ow, rh <= h): every destination cell is the
\* area-weighted mean of the source samples it covers.
Resize(g, h, ow, w, rh) ==
  LET Cell(y, x) ==
        LET sy0 == ((y - 1) * h) \div rh + 1
            sy1 == (y * h - 1) \div rh + 1
            sx0 == ((x - 1) * ow) \div w + 1
            sx1 == (x * ow - 1) \div w + 1
            RowSum(sy) ==
              LET S[i \in (sx0 - 1)..sx1] ==
                    IF i < sx0 THEN 0
                    ELSE S[i - 1] + g[sy][i] * Overlap(i, x, ow, w)
              IN  S[sx1]
            T[j \in (sy0 - 1)..sy1] ==
              IF j < sy0 THEN 0
              ELSE T[j - 1] + RowSum(j) * Overlap(j, y, h, rh)
        IN  RoundHalfEven(T[sy1], ow * h)
  IN  [y \in 1..rh |-> [x \in 1..w |-> Cell(y, x)]]

\* Python floats are IEEE 754 doubles.  A positive double is [m, e]: m its
\* 53 significant bits, the highest first and equal to 1, e the weight of the
\* lowest as a power of two; its value is m * 2^e.  The 52 bits below the
\* highest are worked on as 4 limbs of 13 bits, so that no intermediate
\* result leaves the range of the integers of the checker; this holds for
\* operands below 2^17.
Precision == 53
LimbWidth == 13
LimbBase == 8192

\* floor(log2(a / b)) for integers a, b > 0
RECURSIVE Log2Quotient(_, _)
Log2Quotient(a, b) ==
  IF a >= 2 * b THEN Log2Quotient(a, 2 * b) + 1
  ELSE IF a < b THEN Log2Quotient(2 * a, b) - 1
  ELSE 0

RECURSIVE Pow2(_)
Pow2(n) == IF n = 0 THEN 1 ELSE 2 * Pow2(n - 1)

\* The binary digits of n, the lowest first; none for 0.
RECURSIVE Binary(_)
Binary(n) == IF n = 0 THEN << >> ELSE << n % 2 >> \o Binary(n \div 2)

Reverse(s) == [i \in 1..Len(s) |-> s[Len(s) + 1 - i]]

\* The bits of one limb, the highest first.
LimbBits(d) == [i \in 1..LimbWidth |-> (d \div Pow2(LimbWidth - i)) % 2]

RECURSIVE BitsValue(_)
BitsValue(bits) ==
  IF bits = << >> THEN 0
  ELSE 2 * BitsValue(SubSeq(bits, 1, Len(bits) - 1)) + bits[Len(bits)]

\* The limbs below the highest bit of m, the highest limb first.
LimbsOf(m) ==
  [k \in 1..((Len(m) - 1) \div LimbWidth) |->
     BitsValue(SubSeq(m, 2 + LimbWidth * (k - 1), 1 + LimbWidth * k))]

\* The next n limbs of the quotient r / b (0 <= r < b) by long division, and
\* the remainder left after them.
RECURSIVE DivLimbs(_, _, _)
DivLimbs(r, b, n) ==
  IF n = 0 THEN [bits |-> << >>, rem |-> r]
  ELSE LET d == (r * LimbBase) \div b
           rest == DivLimbs((r * LimbBase) % b, b, n - 1)
       IN  [bits |-> LimbBits(d) \o rest.bits, rem |-> rest.rem]

\* The double above [m, e]: one unit added to the lowest bit.
NextUp(m, e) ==
  IF \A i \in 1..Len(m) : m[i] = 1
  THEN [m |-> [i \in 1..Len(m) |-> IF i = 1 THEN 1 ELSE 0], e |-> e + 1]
  ELSE LET k == CHOOSE i \in 1..Len(m) :
                  m[i] = 0 /\ \A j \in (i + 1)..Len(m) : m[j] = 1
       IN  [m |-> [i \in 1..Len(m) |->
                     IF i < k THEN m[i] ELSE IF i = k THEN 1 ELSE 0],
            e |-> e]

\* a / b of two integers a, b > 0: the quotient rounded to the nearest double,
\* a tie to the even one.
FloatDiv(a, b) ==
  LET j == Log2Quotient(a, b)
      num == IF j < 0 THEN a * Pow2(-j) ELSE a
      den == IF j > 0 THEN b * Pow2(j) ELSE b
      q == DivLimbs(num - den, den, (Precision - 1) \div LimbWidth)
      m == << 1 >> \o q.bits
      up == 2 * q.rem > den \/ (2 * q.rem = den /\ m[Precision] = 1)
  IN  IF up THEN NextUp(m, j - (Precision - 1))
      ELSE [m |-> m, e |-> j - (Precision - 1)]

\* The limbs of limbs * n from the lowest limb on, the lowest first, with
\* what the highest limb carries at the end: the limbs below position i are
\* done, carry is what they left.
RECURSIVE MulLimbs(_, _, _, _)
MulLimbs(limbs, n, i, carry) ==
  IF i = 0 THEN [low |-> << >>, carry |-> carry]
  ELSE LET t == limbs[i] * n + carry
           rest == MulLimbs(limbs, n, i - 1, t \div LimbBase)
       IN  [low |-> << t % LimbBase >> \o rest.low, carry |-> rest.carry]

\* x * n of a double x and an integer n > 0 (n is a double itself): the
\* product rounded to the nearest double, a tie to the even one.
FloatMul(x, n) ==
  LET p == MulLimbs(LimbsOf(x.m), n, (Len(x.m) - 1) \div LimbWidth, 0)
      top == Reverse(Binary(n + p.carry))
      full == top \o LimbBits(p.low[4]) \o LimbBits(p.low[3])
                  \o LimbBits(p.low[2]) \o LimbBits(p.low[1])
      extra == Len(full) - Precision
      kept == SubSeq(full, 1, Precision)
      up == /\ extra > 0
            /\ full[Precision + 1] = 1
            /\ \/ \E i \in (Precision + 2)..Len(full) : full[i] = 1
               \/ kept[Precision] = 1
  IN  IF up THEN NextUp(kept, x.e + extra)
      ELSE [m |-> kept, e |-> x.e + extra]

\* x * 0.5
FloatHalf(x) == [m |-> x.m, e |-> x.e - 1]

\* int(x): the integer part of a double x below 2^31.
FloatTrunc(x) ==
  IF Len(x.m) + x.e <= 0 THEN 0
  ELSE BitsValue(SubSeq(x.m, 1, Len(x.m) + x.e))

\* The floor of one row is missing.
ResizedHeight_NoFloor(height, original_width, width) ==
  FloatTrunc(FloatHalf(FloatMul(FloatDiv(height, original_width), width)))

\* Line 70: max(1, int(height / original_width * width * char_aspect)) with
\* char_aspect = 0.5, evaluated from left to right in doubles; int()
\* truncates.
ResizedHeight(height, original_width, width) ==
  LET scaled ==
        FloatTrunc(FloatHalf(FloatMul(FloatDiv(height, original_width), width)))
  IN  IF scaled > 1 THEN scaled ELSE 1

\* The index is rounded to the nearest entry instead of truncated.
GlyphIndex_Rounded(s) == ((s * (Len(ASCII_CHARS) - 1) + 127) \div 255) % 256

\* Lines 72-73: (sample / 255.0 * (len(ASCII_CHARS) - 1)).astype(np.uint8)
GlyphIndex(s) == ((s * (Len(ASCII_CHARS) - 1)) \div 255) % 256

\* Lines 72, 80: (sample / 255.0 * (len(palette) - 1)).astype(np.uint8)
ColorIndex(s, palette) == ((s * (Len(palette) - 1)) \div 255) % 256

\* A reset closes the rows of the monochrome output too.
MonoRow_WithReset(row) ==
  [x \in 1..Len(row) |-> Glyph(ASCII_CHARS[GlyphIndex(row[x]) + 1])]
    \o << Reset >>

\* Line 77: "".join(row) of the glyphs of one row.
MonoRow(row) == [x \in 1..Len(row) |-> Glyph(ASCII_CHARS[GlyphIndex(row[x]) + 1])]

NoCode == -1   \* last_code = None

\* An escape in front of every cell.
SwitchNeeded_EveryCell(color_code, last_code) == TRUE

\* Line 87: the escape is emitted when the code differs from last_code.
SwitchNeeded(color_code, last_code) == color_code # last_code

\* The row is closed without a reset.
RowEnd_NoReset(last_code) == << >>

\* Lines 92-93: the reset that closes a row in which a color was switched on.
RowEnd(last_code) == IF last_code # NoCode THEN << Reset >> ELSE << >>

\* Lines 83-94: one row of the colored output.
RECURSIVE ColoredCells(_, _, _, _)
ColoredCells(row, palette, x, last_code) ==
  IF x > Len(row) THEN RowEnd(last_code)
  ELSE
    LET char == Glyph(ASCII_CHARS[GlyphIndex(row[x]) + 1])
        color_code == palette[ColorIndex(row[x], palette) + 1]
    IN  IF SwitchNeeded(color_code, last_code)
        THEN << ColorSwitch(color_code), char >>
               \o ColoredCells(row, palette, x + 1, color_code)
        ELSE << char >> \o ColoredCells(row, palette, x + 1, last_code)

\* Lines 82-84: every row starts with last_code = None.
ColoredRow(row, palette) == ColoredCells(row, palette, 1, NoCode)

\* "\n".join(lines)
RECURSIVE JoinLines(_)
JoinLines(lines) ==
  IF Len(lines) = 0 THEN << >>
  ELSE IF Len(lines) = 1 THEN lines[1]
  ELSE lines[1] \o << Newline >> \o JoinLines(Tail(lines))

Raised(what) == [ok |-> FALSE, error |-> what, s |-> << >>]
Returned(s) == [ok |-> TRUE, error |-> "none", s |-> s]

frame_to_ascii(f, width, sch) ==
  IF cvtColorFails(f) THEN Raised("cv2.error")
  ELSE
    LET gray == equalizeHist(cvtColor(f), f.h, f.w)
        height == f.h
        original_width == f.w
    IN  IF original_width = 0 \/ height = 0 THEN Returned(<< >>)
        ELSE IF width <= 0 THEN Raised("cv2.error")
        ELSE
          LET resized_height == ResizedHeight(height, original_width, width)
              resized == Resize(gray, height, original_width, width,
                                resized_height)
          IN  IF sch.mono
              THEN Returned(JoinLines([y \in 1..resized_height |->
                                         MonoRow(resized[y])]))
              ELSE Returned(JoinLines([y \in 1..resized_height |->
                                         ColoredRow(resized[y], sch.palette)]))

----------------------------------------------------------------------------
(* Prompts: an answer is the sequence of the characters typed on the line.  *)
(* A printable ASCII character is written as itself, the space, tab, line   *)
(* feed, carriage return and form feed as " ", "\t", "\n", "\r" and "\f",   *)
(* and any character as "U+" and the four hexadecimal digits of its code    *)
(* point.  The characters are those of U+0000 to U+00FF (ASCII, Latin-1),   *)
(* those of U+0400 to U+04FF (the Cyrillic block) and the white space of    *)
(* Unicode; no other character is an input of the model.                    *)

EOFError == << "EOF" >>

\* str.isspace()
IsSpace(ch) ==
  ch \in
  { " ", "\t", "\n", "\r", "\f", "U+0009", "U+000A", "U+000D", "U+0020",
    "U+000B", "U+000C", "U+001C", "U+001D", "U+001E", "U+001F", "U+0085",
    "U+00A0", "U+1680", "U+2000", "U+2001", "U+2002", "U+2003", "U+2004",
    "U+2005", "U+2006", "U+2007", "U+2008", "U+2009", "U+200A", "U+2028",
    "U+2029", "U+202F", "U+205F", "U+3000" }

RECURSIVE LStrip(_)
LStrip(s) == IF Len(s) > 0 /\ IsSpace(Head(s)) THEN LStrip(Tail(s)) ELSE s

RECURSIVE RStrip(_)
RStrip(s) ==
  IF Len(s) > 0 /\ IsSpace(s[Len(s)])
  THEN RStrip(SubSeq(s, 1, Len(s) - 1)) ELSE s

\* str.strip()
Strip(s) == RStrip(LStrip(s))

\* The characters of U+0000 to U+00FF and U+0400 to U+04FF that str.lower()
\* changes and, at the same index, what it makes of each; it leaves every
\* other character of these ranges, and the white space, as it is.
Capitals ==
  << "A", "B", "C", "D", "E", "F", "G", "H", "I", "J", "K", "L", "M", "N",
     "O", "P", "Q", "R", "S", "T", "U", "V", "W", "X", "Y", "Z", "U+00C0",
     "U+00C1", "U+00C2", "U+00C3", "U+00C4", "U+00C5", "U+00C6", "U+00C7",
     "U+00C8", "U+00C9", "U+00CA", "U+00CB", "U+00CC", "U+00CD", "U+00CE",
     "U+00CF", "U+00D0", "U+00D1", "U+00D2", "U+00D3", "U+00D4", "U+00D5",
     "U+00D6", "U+00D8", "U+00D9", "U+00DA", "U+00DB", "U+00DC", "U+00DD",
     "U+00DE", "U+0400", "U+0401", "U+0402", "U+0403", "U+0404", "U+0405",
     "U+0406", "U+0407", "U+0408", "U+0409", "U+040A", "U+040B", "U+040C",
     "U+040D", "U+040E", "U+040F", "U+0410", "U+0411", "U+0412", "U+0413",
     "U+0414", "U+0415", "U+0416", "U+0417", "U+0418", "U+0419", "U+041A",
     "U+041B", "U+041C", "U+041D", "U+041E", "U+041F", "U+0420", "U+0421",
     "U+0422", "U+0423", "U+0424", "U+0425", "U+0426", "U+0427", "U+0428",
     "U+0429", "U+042A", "U+042B", "U+042C", "U+042D", "U+042E", "U+042F",
     "U+0460", "U+0462", "U+0464", "U+0466", "U+0468", "U+046A", "U+046C",
     "U+046E", "U+0470", "U+0472", "U+0474", "U+0476", "U+0478", "U+047A",
     "U+047C", "U+047E", "U+0480", "U+048A", "U+048C", "U+048E", "U+0490",
     "U+0492", "U+0494", "U+0496", "U+0498", "U+049A", "U+049C", "U+049E",
     "U+04A0", "U+04A2", "U+04A4", "U+04A6", "U+04A8", "U+04AA", "U+04AC",
     "U+04AE", "U+04B0", "U+04B2", "U+04B4", "U+04B6", "U+04B8", "U+04BA",
     "U+04BC", "U+04BE", "U+04C0", "U+04C1", "U+04C3", "U+04C5", "U+04C7",
     "U+04C9", "U+04CB", "U+04CD", "U+04D0", "U+04D2", "U+04D4", "U+04D6",
     "U+04D8", "U+04DA", "U+04DC", "U+04DE", "U+04E0", "U+04E2", "U+04E4",
     "U+04E6", "U+04E8", "U+04EA", "U+04EC", "U+04EE", "U+04F0", "U+04F2",
     "U+04F4", "U+04F6", "U+04F8", "U+04FA", "U+04FC", "U+04FE" >>

Smalls ==
  << "a", "b", "c", "d", "e", "f", "g", "h", "i", "j", "k", "l", "m", "n",
     "o", "p", "q", "r", "s", "t", "u", "v", "w", "x", "y", "z", "U+00E0",
     "U+00E1", "U+00E2", "U+00E3", "U+00E4", "U+00E5", "U+00E6", "U+00E7",
     "U+00E8", "U+00E9", "U+00EA", "U+00EB", "U+00EC", "U+00ED", "U+00EE",
     "U+00EF", "U+00F0", "U+00F1", "U+00F2", "U+00F3", "U+00F4", "U+00F5",
     "U+00F6", "U+00F8", "U+00F9", "U+00FA", "U+00FB", "U+00FC", "U+00FD",
     "U+00FE", "U+0450", "U+0451", "U+0452", "U+0453", "U+0454", "U+0455",
     "U+0456", "U+0457", "U+0458", "U+0459", "U+045A", "U+045B", "U+045C",
     "U+045D", "U+045E", "U+045F", "U+0430", "U+0431", "U+0432", "U+0433",
     "U+0434", "U+0435", "U+0436", "U+0437", "U+0438", "U+0439", "U+043A",
     "U+043B", "U+043C", "U+043D", "U+043E", "U+043F", "U+0440", "U+0441",
     "U+0442", "U+0443", "U+0444", "U+0445", "U+0446", "U+0447", "U+0448",
     "U+0449", "U+044A", "U+044B", "U+044C", "U+044D", "U+044E", "U+044F",
     "U+0461", "U+0463", "U+0465", "U+0467", "U+0469", "U+046B", "U+046D",
     "U+046F", "U+0471", "U+0473", "U+0475", "U+0477", "U+0479", "U+047B",
     "U+047D", "U+047F", "U+0481", "U+048B", "U+048D", "U+048F", "U+0491",
     "U+0493", "U+0495", "U+0497", "U+0499", "U+049B", "U+049D", "U+049F",
     "U+04A1", "U+04A3", "U+04A5", "U+04A7", "U+04A9", "U+04AB", "U+04AD",
     "U+04AF", "U+04B1", "U+04B3", "U+04B5", "U+04B7", "U+04B9", "U+04BB",
     "U+04BD", "U+04BF", "U+04CF", "U+04C2", "U+04C4", "U+04C6", "U+04C8",
     "U+04CA", "U+04CC", "U+04CE", "U+04D1", "U+04D3", "U+04D5", "U+04D7",
     "U+04D9", "U+04DB", "U+04DD", "U+04DF", "U+04E1", "U+04E3", "U+04E5",
     "U+04E7", "U+04E9", "U+04EB", "U+04ED", "U+04EF", "U+04F1", "U+04F3",
     "U+04F5", "U+04F7", "U+04F9", "U+04FB", "U+04FD", "U+04FF" >>

LowerChar(ch) ==
  IF \E i \in 1..Len(Capitals) : Capitals[i] = ch
  THEN Smalls[CHOOSE i \in 1..Len(Capitals) : Capitals[i] = ch]
  ELSE ch

\* str.lower()
Lower(s) == [i \in 1..Len(s) |-> LowerChar(s[i])]

\* Line 105: y, yes and the Cyrillic words of the letters U+0434, U+0430.
Affirmative ==
  { << "y" >>, << "y", "e", "s" >>, << "U+0434" >>, << "U+0434", "U+0430" >> }

\* request_permission(): the value returned for the line answered.
request_permission(response) ==
  IF response = EOFError THEN FALSE
  ELSE Lower(Strip(response)) \in Affirmative

\* choose_color_scheme(): the key chosen by one answer, "0" when the answer is
\* rejected and the question is asked again.
choose_color_scheme(raw_choice) ==
  IF raw_choice = EOFError THEN DEFAULT_SCHEME_KEY
  ELSE LET choice == Strip(raw_choice)
       IN  IF Len(choice) = 0 THEN DEFAULT_SCHEME_KEY
           ELSE IF Len(choice) = 1 /\ choice[1] \in DOMAIN COLOR_SCHEMES
           THEN choice[1]
           ELSE "0"

PermissionAnswers ==
  { EOFError, << >>, << "y" >>, << "Y" >>, << " ", "Y", "e", "s", " " >>,
    << "U+0414", "U+0410" >>, << "U+0434" >>, << "n" >>, << "y", "e" >>,
    << "y", " ", "y" >>, << "y", "\r" >>, << "U+00A0", "y" >> }

SchemeAnswers ==
  { EOFError, << >>, << " " >>, << "1" >>, << " ", "2", " " >>, << "5" >>,
    << "1", "2" >>, << "2", "\r" >> }

----------------------------------------------------------------------------
(* Inputs of the render loop *)

Gray(v) == << v, v, v >>

BandPixel(y, x) ==
  IF x <= 7 THEN Gray(20) ELSE IF x <= 15 THEN << 200, 90, 40 >> ELSE Gray(230)

\* One frame of 2 rows and 24 columns: three vertical bands.
Frames ==
  { [h |-> 2, w |-> 24,
     px |-> [y \in 1..2 |-> [x \in 1..24 |-> BandPixel(y, x)]]] }

NoFrame == [h |-> 0, w |-> 0, px |-> << >>]

TermWidths == {10, 25}

\* The keys typed while the loop runs: one of the keys that lines 171 and 177
\* look for and one other key; a q or an Escape comes from what was typed
\* ahead.
Keys == {"Q", "a"}

\* The capital letter is not recognised.
IsQuitKey_NoCapital(k) == k \in {"q", "ESC"}

\* Lines 171 and 177: q, Q and the escape character.
IsQuitKey(k) == k \in {"q", "Q", "ESC"}

\* The statements of the loop, lines 150-180.
LoopPCs ==
  {"read", "read_failed", "read_break", "flip", "size", "width", "convert", "write_home",
   "write_banner", "write_frame", "write_clear", "flush", "poll", "getkey",
   "check", "sleep"}

Terminated == pc \in {"done", "raised"}

\* cv2.flip(frame, 1)
flip(f) ==
  [h |-> f.h, w |-> f.w,
   px |-> [y \in 1..f.h |-> [x \in 1..f.w |-> f.px[y][f.w + 1 - x]]]]

\* The floor of 20 is missing.
AsciiWidth_NoFloor(cols) == cols - 1

\* Line 157
AsciiWidth(cols) == IF cols - 1 > 20 THEN cols - 1 ELSE 20

----------------------------------------------------------------------------
(* Standard output and the terminal *)

ClearScreen == Tok("ESC[2J")
HideCursorSeq == Tok("ESC[?25l")
ShowCursorSeq == Tok("ESC[?25h")
CursorHome == Tok("ESC[H")
ClearLine == Tok("ESC[0K")
Bold == Tok("ESC[1m")
ClearBelow == Tok("ESC[J")

Last(S) == CHOOSE i \in S : \A j \in S : j <= i

\* The terminal receives tokens: term keeps what came since the last
\* clear-screen or cursor-home, and before the first of these the last
\* MaxScroll tokens.
Deliver(t, tokens) ==
  LET all == t \o tokens
      starts == {i \in 1..Len(all) : all[i] \in {ClearScreen, CursorHome}}
  IN  IF starts # {} THEN SubSeq(all, Last(starts), Len(all))
      ELSE IF Len(all) <= MaxScroll THEN all
      ELSE SubSeq(all, Len(all) - MaxScroll + 1, Len(all))

CursorAfter(c, tokens) ==
  LET marks == {i \in 1..Len(tokens) :
                  tokens[i] \in {HideCursorSeq, ShowCursorSeq}}
  IN  IF marks = {} THEN c
      ELSE IF tokens[Last(marks)] = HideCursorSeq THEN "hidden" ELSE "shown"

\* The length in bytes of the UTF-8 encoding of the texts of lines 100, 109,
\* 112, 116, 122, 127 and 162 and of the scheme names of lines 24-27; the
\* banner is the text of line 162 around the name.
TextBytes(s) ==
  CASE s = "permission_prompt" -> 91
    [] s = "denied" -> 73
    [] s = "menu_header" -> 62
    [] s = "menu_1_default" -> 47
    [] s = "menu_2" -> 28
    [] s = "menu_3" -> 34
    [] s = "menu_4" -> 42
    [] s = "choice_prompt" -> 23
    [] s = "choice_rejected" -> 91
    [] s = "banner" -> 65
    [] s = "Monochrome" -> 16
    [] s = "WarmSunset" -> 23
    [] s = "NeonRainbow" -> 29
    [] s = "EmeraldGlow" -> 37

\* The length in bytes of one token as it is written.
ByteLen(t) ==
  CASE t.k = "text" -> TextBytes(t.c)
    [] t.k \in {"ch", "NL"} -> 1
    [] t.k = "ESC[38;5;m" -> IF t.n < 10 THEN 9 ELSE IF t.n < 100 THEN 10 ELSE 11
    [] t.k \in {"ESC[H", "ESC[J"} -> 3
    [] t.k \in {"ESC[2J", "ESC[0K", "ESC[1m", "ESC[0m"} -> 4
    [] t.k \in {"ESC[?25l", "ESC[?25h"} -> 6

\* The longest token: the texts of lines 100 and 122.
MaxTokenBytes == 91

\* The length in bytes of what is written for the tokens: the number of the
\* pairs of a token and one of its bytes.
Bytes(tokens) ==
  Cardinality(UNION { { p \in (DOMAIN t) \X (1..MaxTokenBytes) :
                          p[2] <= ByteLen(t[p[1]]) } : t \in {tokens} })

\* The size of the buffer of sys.stdout.buffer: the interpreter opens
\* sys.stdout with the block size (st_blksize) of its descriptor, on Linux
\* 1024 for a terminal and 4096 for a pipe, and with io.DEFAULT_BUFFER_SIZE
\* where there is no block size, as on Windows.
BufferSize(win, tty) == IF win THEN 8192 ELSE IF tty THEN 1024 ELSE 4096

\* sys.stdout.write(data) after line 134 (write_through): the bytes go to
\* the buffered writer, which keeps them when they fit into what is left of
\* its buffer of size bytes; otherwise it sends what it holds, and then
\* sends data too if data is larger than the whole buffer, else keeps data.
BufferedWrite(size, buf, data) ==
  IF Bytes(buf) + Bytes(data) <= size
  THEN [out |-> buf \o data, sent |-> << >>]
  ELSE IF Bytes(data) > size
  THEN [out |-> << >>, sent |-> buf \o data]
  ELSE [out |-> data, sent |-> buf]

Write(data) ==
  \E w \in {BufferedWrite(buffer_size, out, data)} :
    /\ out' = w.out
    /\ term' = Deliver(term, w.sent)
    /\ cursor' = CursorAfter(cursor, w.sent)

\* sys.stdout.flush()
FlushOut ==
  /\ out' = << >>
  /\ term' = Deliver(term, out)
  /\ cursor' = CursorAfter(cursor, out)

\* print(text) before line 134: a line-buffered sys.stdout (a terminal)
\* sends the line at once, any other keeps it.
PrintLine(line) ==
  IF line_buffering
  THEN /\ out' = << >>
       /\ term' = Deliver(term, out \o line)
       /\ cursor' = CursorAfter(cursor, out \o line)
  ELSE /\ out' = out \o line
       /\ UNCHANGED << term, cursor >>

\* A write to standard error: what it receives is received as well where
\* standard output goes when the two are one file; sys.stdout is not
\* flushed by it.
WriteErr(text) ==
  /\ err' = Append(err, text)
  /\ term' = IF stderrShared
             THEN Deliver(term, << Text(text), Newline >>)
             ELSE term

\* input(prompt) before it waits for the line: standard output is flushed
\* and the prompt is shown.  With a terminal on standard input and on
\* standard output the line is read by the interpreter's readline, which
\* writes the prompt to the standard error of the process, not to
\* sys.stderr; otherwise the prompt is written to sys.stdout and flushed.
Prompt(prompt) ==
  /\ out' = << >>
  /\ IF isTTY /\ line_buffering
     THEN /\ err_prompt' = prompt[1].c
          /\ term' = Deliver(term, IF stderrShared THEN out \o prompt ELSE out)
          /\ cursor' = CursorAfter(cursor, out)
     ELSE /\ err_prompt' = ""
          /\ term' = Deliver(term, out \o prompt)
          /\ cursor' = CursorAfter(cursor, out \o prompt)

----------------------------------------------------------------------------
(* main().  pc names the statement that is executed next.                   *)

\* On Windows standard input is the console: neither raw_stdin nor the poll
\* depends on isatty() there, and a redirected standard input, which only
\* input() would see, is left out.  sys.stdout is line-buffered when it is
\* a terminal, and its buffer has the size that goes with that.
Init ==
  /\ isWindows \in BOOLEAN
  /\ isTTY \in BOOLEAN
  /\ isWindows => isTTY
  /\ stderrShared \in BOOLEAN
  /\ line_buffering \in BOOLEAN
  /\ buffer_size = BufferSize(isWindows, line_buffering)
  /\ err_prompt = ""
  /\ pc = "perm"
  /\ permission = "pending"
  /\ scheme = "0"
  /\ retries = 0
  /\ capState = "none"
  /\ releases = 0
  /\ termMode = "cooked"
  /\ savedMode = "none"
  /\ restores = 0
  /\ out = << >>
  /\ term = << >>
  /\ cursor = "shown"
  /\ shows = 0
  /\ err = << >>
  /\ rc = -1
  /\ exc = "none"
  /\ ret = FALSE
  /\ frame = NoFrame
  /\ ascii_width = 0
  /\ ascii_frame = << >>
  /\ osBuf = << >>
  /\ pyBuf = << >>
  /\ stdinEOF = FALSE
  /\ key = "none"
  /\ reads = 0
  /\ converts = 0
  /\ draws = 0
  /\ polls = 0
  /\ intrLog = << >>
  /\ columns = 25
  /\ term_width = 0
  /\ calls = << >>
  /\ sample = 0
  /\ glyph_index = -1
  /\ color_index = -1
  /\ local_resized = << >>
  /\ local_lines = << >>
  /\ local_line_parts = << >>
  /\ local_last_code = NoCode
  /\ row_no = 0
  /\ cell_no = 0

platformVars == << isWindows, isTTY, stderrShared >>
callVars == << calls, sample, glyph_index, color_index, local_resized,
              local_lines, local_line_parts, local_last_code, row_no,
              cell_no >>
promptVars == << permission, scheme, retries >>
capVars == << capState, releases >>
rawVars == << termMode, savedMode, restores >>
stdoutVars == << out, term, cursor, shows, line_buffering, buffer_size,
                err_prompt >>
tickVars == << ret, frame, ascii_width, ascii_frame, term_width, reads,
              converts, draws >>
inputVars == << osBuf, pyBuf, key, polls >>

MenuPCs == << "menu_header", "menu_1", "menu_2", "menu_3", "menu_4" >>

\* The statements before the try of line 146.
StartupPCs ==
  {"perm", "perm_wait", "denied", "denied_return", "menu_header", "menu_1",
   "menu_2", "menu_3", "menu_4", "choice_prompt", "choice_wait",
   "choice_rejected", "reconfigure", "open", "open_failed", "failed_return", "hide",
   "hide_flush", "try"}

\* Line 102: input() shows the prompt and waits for the answer.
AskPermission ==
  /\ pc = "perm"
  /\ Prompt(<< Text("permission_prompt") >>)
  /\ pc' = "perm_wait"
  /\ UNCHANGED << platformVars, callVars, promptVars, capVars, rawVars,
                  tickVars, inputVars, shows, line_buffering, buffer_size,
                  err, rc, exc, stdinEOF, intrLog, columns >>

\* A redirected standard input that hit end of file stays there.
AtEOF(answer) == stdinEOF \/ (answer = EOFError /\ ~isWindows /\ ~isTTY)

\* The refusal is reported but main goes on.
AfterPermission_NoReturn(granted) == "menu_header"

\* Line 126: main goes on to line 130 when permission was granted, to line
\* 127 when it was not.
AfterPermission(granted) == IF granted THEN "menu_header" ELSE "denied"

\* Lines 102-105 from the answer on, and the test of line 126.
AnswerPermission ==
  /\ pc = "perm_wait"
  /\ \E response \in PermissionAnswers :
       /\ stdinEOF' = AtEOF(response)
       /\ permission' = IF request_permission(response)
                        THEN "granted" ELSE "declined"
       /\ pc' = AfterPermission(request_permission(response))
  /\ UNCHANGED << platformVars, callVars, capVars, rawVars, stdoutVars,
                  tickVars, inputVars, scheme, retries, err, rc, exc, intrLog,
                  columns >>

\* Line 127
PrintDenied ==
  /\ pc = "denied"
  /\ PrintLine(<< Text("denied"), Newline >>)
  /\ pc' = "denied_return"
  /\ UNCHANGED << platformVars, callVars, promptVars, capVars, rawVars,
                  tickVars, inputVars, shows, line_buffering, buffer_size,
                  err_prompt,
                  err, rc, exc, stdinEOF, intrLog, columns >>

\* The lines printed by lines 109 and 110-112.
SchemeMenu ==
  << << Text("menu_header"), Newline >>, << Text("menu_1_default"), Newline >>,
     << Text("menu_2"), Newline >>, << Text("menu_3"), Newline >>,
     << Text("menu_4"), Newline >> >>

\* Lines 109-112: one print per step.
PrintMenu ==
  /\ \E i \in 1..Len(MenuPCs) :
       /\ pc = MenuPCs[i]
       /\ PrintLine(SchemeMenu[i])
       /\ pc' = IF i < Len(MenuPCs) THEN MenuPCs[i + 1] ELSE "choice_prompt"
  /\ UNCHANGED << platformVars, callVars, promptVars, capVars, rawVars,
                  tickVars, inputVars, shows, line_buffering, buffer_size,
                  err_prompt,
                  err, rc, exc, stdinEOF, intrLog, columns >>

\* Line 116: input() shows the prompt and waits for the answer.
AskChoice ==
  /\ pc = "choice_prompt"
  /\ Prompt(<< Text("choice_prompt") >>)
  /\ pc' = "choice_wait"
  /\ UNCHANGED << platformVars, callVars, promptVars, capVars, rawVars,
                  tickVars, inputVars, shows, line_buffering, buffer_size,
                  err, rc, exc, stdinEOF, intrLog, columns >>



\* Lines 116-121 from the answer on.  A redirected standard input is read
\* through sys.stdin, which takes what follows the line into its buffer; a
\* terminal keeps it: nothing, a q or an Escape was typed ahead, the Windows
\* console being left out.  The rejections are counted up to MaxRetries, for as long
\* as choose_color_scheme runs.
AnswerChoice ==
  /\ pc = "choice_wait"
  /\ \E raw_choice \in SchemeAnswers :
       /\ stdinEOF' = AtEOF(raw_choice)
       /\ IF choose_color_scheme(raw_choice) # "0"
          THEN /\ scheme' = choose_color_scheme(raw_choice)
               /\ retries' = 0
               /\ pc' = "reconfigure"
               /\ \E ahead \in { << >>, << "q" >>, << "ESC" >> } :
                    /\ (isWindows \/ raw_choice = EOFError) => ahead = << >>
                    /\ IF isTTY
                       THEN osBuf' = osBuf \o ahead /\ pyBuf' = pyBuf
                       ELSE pyBuf' = pyBuf \o ahead /\ osBuf' = osBuf
          ELSE /\ scheme' = scheme
               /\ retries' = IF retries < MaxRetries THEN retries + 1 ELSE retries
               /\ pc' = "choice_rejected"
               /\ UNCHANGED << osBuf, pyBuf >>
  /\ UNCHANGED << platformVars, callVars, capVars, rawVars, stdoutVars,
                  tickVars, permission, err, rc, exc, key, polls, intrLog,
                  columns >>

\* Line 122
PrintRejected ==
  /\ pc = "choice_rejected"
  /\ PrintLine(<< Text("choice_rejected"), Newline >>)
  /\ pc' = "choice_prompt"
  /\ UNCHANGED << platformVars, callVars, promptVars, capVars, rawVars,
                  tickVars, inputVars, shows, line_buffering, buffer_size,
                  err_prompt,
                  err, rc, exc, stdinEOF, intrLog, columns >>

\* Lines 132-136: reconfigure flushes sys.stdout and ends its line
\* buffering.  enable_virtual_terminal changes the mode of the Windows console
\* only.
Reconfigure ==
  /\ pc = "reconfigure"
  /\ FlushOut
  /\ line_buffering' = FALSE
  /\ pc' = "open"
  /\ UNCHANGED << platformVars, callVars, promptVars, capVars, rawVars,
                  tickVars, inputVars, shows, buffer_size, err_prompt, err,
                  rc, exc,
                  stdinEOF, intrLog, columns >>

\* Lines 138-139
OpenCapture ==
  /\ pc = "open"
  /\ \E isOpened \in BOOLEAN :
       IF isOpened
       THEN capState' = "opened" /\ pc' = "hide"
       ELSE capState' = "failed" /\ pc' = "open_failed"
  /\ UNCHANGED << platformVars, callVars, promptVars, rawVars, stdoutVars,
                  tickVars, inputVars, releases, err, rc, exc, stdinEOF,
                  intrLog, columns >>

\* Line 140
ReportOpenFailure ==
  /\ pc = "open_failed"
  /\ WriteErr("camera_unavailable")
  /\ pc' = "failed_return"
  /\ UNCHANGED << platformVars, callVars, promptVars, capVars, rawVars,
                  tickVars, inputVars, out, cursor, shows, line_buffering,
                  buffer_size, err_prompt, rc, exc, stdinEOF, intrLog,
                  columns >>

\* Line 128: the value returned when permission was not granted.
DeclinedCode == 0

\* The failure to open the device is reported with the code of success.
OpenFailedCode_Success == 1 - 1

\* Line 141: the value returned when the device cannot be opened.
OpenFailedCode == 1

\* Line 188: the value returned after the session.
SessionCode == 0

ReturnCode(p) ==
  CASE p = "denied_return" -> DeclinedCode
    [] p = "failed_return" -> OpenFailedCode
    [] p = "return" -> SessionCode

\* Lines 128, 141 and 188
Return ==
  /\ pc \in {"denied_return", "failed_return", "return"}
  /\ rc' = ReturnCode(pc)
  /\ pc' = "done"
  /\ UNCHANGED << platformVars, callVars, promptVars, capVars, rawVars,
                  stdoutVars, tickVars, inputVars, err, exc, stdinEOF,
                  intrLog, columns >>

\* Line 143
WriteHide ==
  /\ pc = "hide"
  /\ Write(<< ClearScreen, HideCursorSeq >>)
  /\ pc' = "hide_flush"
  /\ UNCHANGED << platformVars, callVars, promptVars, capVars, rawVars,
                  tickVars, inputVars, shows, line_buffering, buffer_size,
                  err_prompt,
                  err, rc, exc, stdinEOF, intrLog, columns >>

\* Line 144
FlushHide ==
  /\ pc = "hide_flush"
  /\ FlushOut
  /\ pc' = "try"
  /\ UNCHANGED << platformVars, callVars, promptVars, capVars, rawVars,
                  tickVars, inputVars, shows, line_buffering, buffer_size,
                  err_prompt,
                  err, rc, exc, stdinEOF, intrLog, columns >>

\* Line 146: from here on the finally clause of line 183 runs.
EnterTry ==
  /\ pc = "try"
  /\ pc' = "enter_raw"
  /\ UNCHANGED << platformVars, callVars, promptVars, capVars, rawVars,
                  stdoutVars, tickVars, inputVars, err, rc, exc, stdinEOF,
                  intrLog, columns >>

\* Line 48: raw_stdin changes the terminal mode only here.
RawModeApplies(win, tty) == ~win /\ tty

\* Line 147 entering raw_stdin, lines 48-55.
EnterRaw ==
  /\ pc = "enter_raw"
  /\ IF RawModeApplies(isWindows, isTTY)
     THEN savedMode' = termMode /\ pc' = "setcbreak"
     ELSE savedMode' = savedMode /\ pc' = "yield"
  /\ UNCHANGED << platformVars, callVars, promptVars, capVars, stdoutVars,
                  tickVars, inputVars, termMode, restores, err, rc, exc,
                  stdinEOF, intrLog, columns >>

\* Lines 56-57: tty.setcbreak(fd) sets the mode with TCSAFLUSH, which
\* discards the input that was not read.
SetCbreak ==
  /\ pc = "setcbreak"
  /\ termMode' = "cbreak"
  /\ osBuf' = << >>
  /\ pc' = "yield"
  /\ UNCHANGED << platformVars, callVars, promptVars, capVars, stdoutVars,
                  tickVars, savedMode, restores, err, rc, exc, pyBuf,
                  stdinEOF, key, polls, intrLog, columns >>

\* Lines 49 or 58 and 148-149: the with block and its try are entered.
EnterLoop ==
  /\ pc = "yield"
  /\ pc' = "read"
  /\ UNCHANGED << platformVars, callVars, promptVars, capVars, rawVars,
                  stdoutVars, tickVars, inputVars, err, rc, exc, stdinEOF,
                  intrLog, columns >>

\* The keyboard is polled before the frame is flushed.
AfterStep_PollBeforeFlush(p) ==
  CASE p = "read" -> "flip"
    [] p = "flip" -> "size"
    [] p = "size" -> "width"
    [] p = "width" -> "convert"
    [] p = "convert" -> "write_home"
    [] p = "write_home" -> "write_banner"
    [] p = "write_banner" -> "write_frame"
    [] p = "write_frame" -> "write_clear"
    [] p = "write_clear" -> "poll"
    [] p = "poll" -> "flush"
    [] p = "getkey" -> "check"
    [] p = "check" -> "flush"
    [] p = "flush" -> "sleep"
    [] p = "sleep" -> "read"

\* The order of the statements of one iteration of the loop, lines 150-180;
\* a poll that finds input goes through getkey and check.
AfterStep(p) ==
  CASE p = "read" -> "flip"
    [] p = "flip" -> "size"
    [] p = "size" -> "width"
    [] p = "width" -> "convert"
    [] p = "convert" -> "write_home"
    [] p = "write_home" -> "write_banner"
    [] p = "write_banner" -> "write_frame"
    [] p = "write_frame" -> "write_clear"
    [] p = "write_clear" -> "flush"
    [] p = "flush" -> "poll"
    [] p = "poll" -> "sleep"
    [] p = "getkey" -> "check"
    [] p = "check" -> "sleep"
    [] p = "sleep" -> "read"

\* A failed read does not leave the loop.
ReadBreaks_Never(r) == FALSE

\* Line 151: the loop is left when ret is false.
ReadBreaks(r) == ~r

NoKey == "none"
EndOfFile == ""

\* The counters of reads, conversions, draws and polls stop at MaxTicks + 1:
\* a loop that goes on counts no further.
Counted(n) == IF n <= MaxTicks THEN n + 1 ELSE n

\* Lines 150-151.  The device delivers at most MaxTicks frames.
ReadFrame ==
  /\ pc = "read"
  /\ reads' = Counted(reads)
  /\ key' = NoKey
  /\ \E r \in BOOLEAN :
       /\ ret' = r
       /\ IF r
          THEN /\ reads < MaxTicks
               /\ \E f \in Frames : frame' = f
          ELSE frame' = NoFrame
       /\ pc' = IF ReadBreaks(r) THEN "read_failed" ELSE AfterStep(pc)
  /\ UNCHANGED << platformVars, callVars, promptVars, capVars, rawVars,
                  stdoutVars, err, rc, exc, ascii_width, ascii_frame, osBuf,
                  pyBuf, stdinEOF, converts, draws, polls, intrLog, columns,
                  term_width >>

\* Line 152
ReportReadFailure ==
  /\ pc = "read_failed"
  /\ WriteErr("capture_failed")
  /\ pc' = "read_break"
  /\ UNCHANGED << platformVars, callVars, promptVars, capVars, rawVars,
                  tickVars, inputVars, out, cursor, shows, line_buffering,
                  buffer_size, err_prompt, rc, exc, stdinEOF, intrLog,
                  columns >>

\* Line 153
BreakLoop ==
  /\ pc = "read_break"
  /\ pc' = "exit_raw"
  /\ UNCHANGED << platformVars, callVars, promptVars, capVars, rawVars,
                  stdoutVars, tickVars, inputVars, err, rc, exc, stdinEOF,
                  intrLog, columns >>

\* Line 155
Flip ==
  /\ pc = "flip"
  /\ frame' = flip(frame)
  /\ pc' = AfterStep(pc)
  /\ UNCHANGED << platformVars, callVars, promptVars, capVars, rawVars,
                  stdoutVars, inputVars, err, rc, exc, ret, ascii_width,
                  ascii_frame, stdinEOF, reads, converts, draws, intrLog,
                  columns, term_width >>

\* Line 156
TerminalSize ==
  /\ pc = "size"
  /\ term_width' = columns
  /\ pc' = AfterStep(pc)
  /\ UNCHANGED << platformVars, callVars, promptVars, capVars, rawVars,
                  stdoutVars, inputVars, err, rc, exc, ret, frame,
                  ascii_width, ascii_frame, stdinEOF, reads, converts, draws,
                  intrLog, columns >>

\* Line 157
Width ==
  /\ pc = "width"
  /\ ascii_width' = AsciiWidth(term_width)
  /\ pc' = AfterStep(pc)
  /\ UNCHANGED << platformVars, callVars, promptVars, capVars, rawVars,
                  stdoutVars, inputVars, err, rc, exc, ret, frame,
                  ascii_frame, stdinEOF, reads, converts, draws, intrLog,
                  columns, term_width >>

\* Line 158.  An error raised by the conversion is not caught by the loop:
\* it leaves through the with block and the finally clause.
Convert ==
  /\ pc = "convert"
  /\ converts' = Counted(converts)
  /\ LET result == frame_to_ascii(frame, ascii_width, COLOR_SCHEMES[scheme])
     IN  IF result.ok
         THEN /\ ascii_frame' = result.s
              /\ pc' = AfterStep(pc)
              /\ exc' = exc
         ELSE /\ ascii_frame' = ascii_frame
              /\ pc' = "exit_raw"
              /\ exc' = result.error
  /\ UNCHANGED << platformVars, callVars, promptVars, capVars, rawVars,
                  stdoutVars, inputVars, err, rc, ret, frame, ascii_width,
                  stdinEOF, reads, draws, intrLog, columns, term_width >>

WritePCs == << "write_home", "write_banner", "write_frame", "write_clear" >>

\* The screen below is cleared before the frame is written.
TickWrites_ClearBeforeFrame(name, rendered) ==
  << << CursorHome, ClearLine >>,
     << Bold, Text(name), Text("banner"), Reset, Newline >>,
     << Reset, ClearBelow >>,
     rendered >>

\* The writes of lines 160, 161-163, 164 and 165, in this order.
TickWrites(name, rendered) ==
  << << CursorHome, ClearLine >>,
     << Bold, Text(name), Text("banner"), Reset, Newline >>,
     rendered,
     << Reset, ClearBelow >> >>

\* What the writes of one tick send to sys.stdout.
TickOutput(name, rendered) ==
  TickWrites(name, rendered)[1] \o TickWrites(name, rendered)[2]
    \o TickWrites(name, rendered)[3] \o TickWrites(name, rendered)[4]

\* Lines 160-165: one write per step.
WriteTick ==
  /\ \E i \in 1..Len(WritePCs) :
       /\ pc = WritePCs[i]
       /\ Write(TickWrites(COLOR_SCHEMES[scheme].name, ascii_frame)[i])
  /\ draws' = IF pc = "write_frame" THEN Counted(draws) ELSE draws
  /\ pc' = AfterStep(pc)
  /\ UNCHANGED << platformVars, callVars, promptVars, capVars, rawVars,
                  inputVars, shows, line_buffering, buffer_size, err_prompt,
                  err, rc, exc,
                  ret, frame, ascii_width, ascii_frame, stdinEOF, reads,
                  converts, intrLog, columns, term_width >>

\* Line 166
Flush ==
  /\ pc = "flush"
  /\ FlushOut
  /\ pc' = AfterStep(pc)
  /\ UNCHANGED << platformVars, callVars, promptVars, capVars, rawVars,
                  tickVars, inputVars, shows, line_buffering, buffer_size,
                  err_prompt,
                  err, rc, exc, stdinEOF, intrLog, columns >>

\* Lines 169 and 174-175: msvcrt.kbhit() looks at the console, select() at
\* the descriptor only, which is ready when it holds input or is at its end.
InputReady(win, os, eof) == IF win THEN Len(os) > 0 ELSE Len(os) > 0 \/ eof

\* Lines 170 and 176: msvcrt.getwch() takes one keypress from the console;
\* sys.stdin.read(1) serves the text layer's buffer first and otherwise moves
\* everything readable into that buffer.
ReadKey(win, os, py) ==
  IF win
  THEN [key |-> Head(os), os |-> Tail(os), py |-> py]
  ELSE IF Len(py) > 0
  THEN [key |-> Head(py), os |-> os, py |-> Tail(py)]
  ELSE IF Len(os) > 0
  THEN [key |-> Head(os), os |-> << >>, py |-> Tail(os)]
  ELSE [key |-> EndOfFile, os |-> os, py |-> py]

\* Lines 168-176: the key obtained by one poll and the input left behind.
PollInput(win, os, py, eof) ==
  IF InputReady(win, os, eof) THEN ReadKey(win, os, py)
  ELSE [key |-> NoKey, os |-> os, py |-> py]

\* Lines 168-169 and 173-175
Poll ==
  /\ pc = "poll"
  /\ polls' = Counted(polls)
  /\ pc' = IF InputReady(isWindows, osBuf, stdinEOF)
           THEN "getkey" ELSE AfterStep(pc)
  /\ UNCHANGED << platformVars, callVars, promptVars, capVars, rawVars,
                  stdoutVars, tickVars, err, rc, exc, osBuf, pyBuf, stdinEOF,
                  key, intrLog, columns >>

\* Lines 170 and 176
GetKey ==
  /\ pc = "getkey"
  /\ key' = ReadKey(isWindows, osBuf, pyBuf).key
  /\ osBuf' = ReadKey(isWindows, osBuf, pyBuf).os
  /\ pyBuf' = ReadKey(isWindows, osBuf, pyBuf).py
  /\ pc' = AfterStep(pc)
  /\ UNCHANGED << platformVars, callVars, promptVars, capVars, rawVars,
                  stdoutVars, tickVars, err, rc, exc, stdinEOF, polls,
                  intrLog, columns >>

\* Lines 171-172 and 177-178
CheckKey ==
  /\ pc = "check"
  /\ pc' = IF IsQuitKey(key) THEN "exit_raw" ELSE AfterStep(pc)
  /\ UNCHANGED << platformVars, callVars, promptVars, capVars, rawVars,
                  stdoutVars, tickVars, inputVars, err, rc, exc, stdinEOF,
                  intrLog, columns >>

\* Line 180
Sleep ==
  /\ pc = "sleep"
  /\ pc' = AfterStep(pc)
  /\ UNCHANGED << platformVars, callVars, promptVars, capVars, rawVars,
                  stdoutVars, tickVars, inputVars, err, rc, exc, stdinEOF,
                  intrLog, columns >>

\* Lines 59-60: the finally clause of raw_stdin, run when the with block of
\* line 147 is left.  Nothing was saved on Windows or without a terminal.
ExitRaw ==
  /\ pc = "exit_raw"
  /\ IF savedMode # "none"
     THEN termMode' = savedMode /\ restores' = restores + 1
     ELSE UNCHANGED << termMode, restores >>
  /\ pc' = "release"
  /\ UNCHANGED << platformVars, callVars, promptVars, capVars, stdoutVars,
                  tickVars, inputVars, savedMode, err, rc, exc, stdinEOF,
                  intrLog, columns >>

\* Line 184
Release ==
  /\ pc = "release"
  /\ capState' = "released"
  /\ releases' = releases + 1
  /\ pc' = "show"
  /\ UNCHANGED << platformVars, callVars, promptVars, rawVars, stdoutVars,
                  tickVars, inputVars, err, rc, exc, stdinEOF, intrLog,
                  columns >>

\* Line 185
WriteShow ==
  /\ pc = "show"
  /\ Write(<< ShowCursorSeq, Reset, Newline >>)
  /\ shows' = shows + 1
  /\ pc' = "show_flush"
  /\ UNCHANGED << platformVars, callVars, promptVars, capVars, rawVars,
                  tickVars, inputVars, line_buffering, buffer_size,
                  err_prompt, err, rc,
                  exc, stdinEOF, intrLog, columns >>

\* Line 186: after the finally clause main goes on to line 188, unless an
\* exception is in flight, which then leaves main.
FlushShow ==
  /\ pc = "show_flush"
  /\ FlushOut
  /\ pc' = IF exc = "none" THEN "return" ELSE "raised"
  /\ UNCHANGED << platformVars, callVars, promptVars, capVars, rawVars,
                  tickVars, inputVars, shows, line_buffering, buffer_size,
                  err_prompt,
                  err, rc, exc, stdinEOF, intrLog, columns >>

\* No except clause around the loop: the interrupt leaves main through the
\* with block and the finally clause.
OnInterrupt_NotCaught(p, e) ==
  CASE p \in StartupPCs -> [pc |-> "raised", exc |-> "KeyboardInterrupt"]
    [] p \in {"enter_raw", "setcbreak"} ->
         [pc |-> "release", exc |-> "KeyboardInterrupt"]
    [] p = "yield" -> [pc |-> "exit_raw", exc |-> "KeyboardInterrupt"]
    [] p \in LoopPCs -> [pc |-> "exit_raw", exc |-> "KeyboardInterrupt"]
    [] p = "exit_raw" -> [pc |-> "release", exc |-> "KeyboardInterrupt"]
    [] p \in {"release", "show", "show_flush", "return"} ->
         [pc |-> "raised", exc |-> "KeyboardInterrupt"]

\* Where a KeyboardInterrupt raised before the statement at p takes main:
\* nothing handles it before line 146; from there on the finally clause of
\* line 183 runs; inside raw_stdin and before the try of line 148 its finally
\* clause runs too; line 181 catches it inside the loop only; an exception
\* raised inside the finally clause of line 183 or after it ends main.
OnInterrupt(p, e) ==
  CASE p \in StartupPCs -> [pc |-> "raised", exc |-> "KeyboardInterrupt"]
    [] p \in {"enter_raw", "setcbreak"} ->
         [pc |-> "release", exc |-> "KeyboardInterrupt"]
    [] p = "yield" -> [pc |-> "exit_raw", exc |-> "KeyboardInterrupt"]
    [] p \in LoopPCs -> [pc |-> "exit_raw", exc |-> e]
    [] p = "exit_raw" -> [pc |-> "release", exc |-> "KeyboardInterrupt"]
    [] p \in {"release", "show", "show_flush", "return"} ->
         [pc |-> "raised", exc |-> "KeyboardInterrupt"]

\* An interrupt arrives before the statement at pc is executed, or while
\* that statement waits.  When it arrives where the settings are saved and the
\* mode not yet changed, or while the with block is being left, the finally
\* clause of raw_stdin has either called tcsetattr or not.
Interrupt ==
  /\ ~Terminated
  /\ Len(intrLog) < MaxInterrupts
  /\ intrLog' = Append(intrLog, pc)
  /\ pc' = OnInterrupt(pc, exc).pc
  /\ exc' = OnInterrupt(pc, exc).exc
  /\ IF pc \in {"setcbreak", "exit_raw"} /\ savedMode # "none"
     THEN \E restored \in BOOLEAN :
            IF restored
            THEN termMode' = savedMode /\ restores' = restores + 1
            ELSE UNCHANGED << termMode, restores >>
     ELSE UNCHANGED << termMode, restores >>
  /\ UNCHANGED << platformVars, callVars, promptVars, capVars, stdoutVars,
                  tickVars, inputVars, savedMode, err, rc, stdinEOF, columns >>

\* The user presses a key while the loop runs; at most MaxKeys keypresses are
\* waiting to be read at any time.  Only the poll looks at the input, so the
\* keypresses of a tick are placed before its poll or between the test and the
\* read of that poll.
TypeKey ==
  /\ pc \in {"poll", "getkey"}
  /\ Len(pyBuf) + Len(osBuf) < MaxKeys
  /\ \E k \in Keys : osBuf' = Append(osBuf, k)
  /\ UNCHANGED << platformVars, callVars, promptVars, capVars, rawVars,
                  stdoutVars, tickVars, pc, err, rc, exc, pyBuf, stdinEOF,
                  key, polls, intrLog, columns >>

\* The terminal is resized while the loop runs.  Only line 156 reads the
\* width, so the resizes of a tick are placed before that line, and those
\* between two ticks in the sleep.
ResizeTerminal ==
  /\ pc \in {"size", "sleep"}
  /\ \E c \in TermWidths \ {columns} : columns' = c
  /\ UNCHANGED << platformVars, callVars, promptVars, capVars, rawVars,
                  stdoutVars, tickVars, inputVars, pc, err, rc, exc, stdinEOF,
                  intrLog >>

\* The writer of a redirected standard input closes it.
CloseStdin ==
  /\ pc \in {"poll", "getkey"}
  /\ ~isWindows /\ ~isTTY /\ ~stdinEOF
  /\ stdinEOF' = TRUE
  /\ UNCHANGED << platformVars, callVars, promptVars, capVars, rawVars,
                  stdoutVars, tickVars, inputVars, pc, err, rc, exc, intrLog,
                  columns >>

Next ==
  \/ AskPermission
  \/ AnswerPermission
  \/ PrintDenied
  \/ PrintMenu
  \/ AskChoice
  \/ AnswerChoice
  \/ PrintRejected
  \/ Reconfigure
  \/ OpenCapture
  \/ ReportOpenFailure
  \/ Return
  \/ WriteHide
  \/ FlushHide
  \/ EnterTry
  \/ EnterRaw
  \/ SetCbreak
  \/ EnterLoop
  \/ ReadFrame
  \/ ReportReadFailure
  \/ BreakLoop
  \/ Flip
  \/ TerminalSize
  \/ Width
  \/ Convert
  \/ WriteTick
  \/ Flush
  \/ Poll
  \/ GetKey
  \/ CheckKey
  \/ Sleep
  \/ ExitRaw
  \/ Release
  \/ WriteShow
  \/ FlushShow
  \/ Interrupt
  \/ TypeKey
  \/ ResizeTerminal
  \/ CloseStdin

Spec == Init /\ [][Next]_vars

----------------------------------------------------------------------------
(* main with a camera that opens and keeps delivering frames, without      *)
(* interrupts: the statements of the loop are executed one after the other *)
(* for as long as the loop runs.                                           *)

\* Lines 150-151 when cap.read() succeeds.
ReadFrameLive ==
  /\ pc = "read"
  /\ reads' = Counted(reads)
  /\ key' = NoKey
  /\ ret' = TRUE
  /\ \E f \in Frames : frame' = f
  /\ pc' = AfterStep(pc)
  /\ UNCHANGED << platformVars, callVars, promptVars, capVars, rawVars,
                  stdoutVars, err, rc, exc, ascii_width, ascii_frame, osBuf,
                  pyBuf, stdinEOF, converts, draws, polls, intrLog, columns,
                  term_width >>

\* frame_to_ascii(frame, ascii_width, scheme) of line 158 for every flipped
\* frame of the camera, width and scheme.
Conversions ==
  [f \in { flip(g) : g \in Frames } |->
     [width \in { AsciiWidth(cols) : cols \in TermWidths } |->
        [name \in DOMAIN COLOR_SCHEMES |->
           frame_to_ascii(f, width, COLOR_SCHEMES[name])]]]

\* Line 158, the result looked up in Conversions.
ConvertLive ==
  /\ pc = "convert"
  /\ converts' = Counted(converts)
  /\ LET result == Conversions[frame][ascii_width][scheme]
     IN  IF result.ok
         THEN /\ ascii_frame' = result.s
              /\ pc' = AfterStep(pc)
              /\ exc' = exc
         ELSE /\ ascii_frame' = ascii_frame
              /\ pc' = "exit_raw"
              /\ exc' = result.error
  /\ UNCHANGED << platformVars, callVars, promptVars, capVars, rawVars,
                  stdoutVars, inputVars, err, rc, ret, frame, ascii_width,
                  stdinEOF, reads, draws, intrLog, columns, term_width >>

LoopStep ==
  \/ ReadFrameLive
  \/ Flip
  \/ TerminalSize
  \/ Width
  \/ ConvertLive
  \/ WriteTick
  \/ Flush
  \/ Poll
  \/ GetKey
  \/ CheckKey
  \/ Sleep

NextLive ==
  \/ AskPermission
  \/ AnswerPermission
  \/ PrintDenied
  \/ PrintMenu
  \/ AskChoice
  \/ AnswerChoice
  \/ PrintRejected
  \/ Reconfigure
  \/ OpenCapture
  \/ ReportOpenFailure
  \/ Return
  \/ WriteHide
  \/ FlushHide
  \/ EnterTry
  \/ EnterRaw
  \/ SetCbreak
  \/ EnterLoop
  \/ ReadFrameLive
  \/ Flip
  \/ TerminalSize
  \/ Width
  \/ ConvertLive
  \/ WriteTick
  \/ Flush
  \/ Poll
  \/ GetKey
  \/ CheckKey
  \/ Sleep
  \/ ExitRaw
  \/ Release
  \/ WriteShow
  \/ FlushShow
  \/ TypeKey
  \/ ResizeTerminal
  \/ CloseStdin

SpecLive == Init /\ [][NextLive]_vars /\ WF_vars(LoopStep)

----------------------------------------------------------------------------
(* frame_to_ascii called on its own: every frame of at most MaxPixels      *)
(* pixels, every width that does not enlarge it, every scheme.             *)

MaxPixels == 6

ConvPixels == { Gray(0), << 200, 90, 40 >>, Gray(255) }

ConvShapes ==
  { d \in (0..MaxPixels) \X (0..MaxPixels) : d[1] * d[2] <= MaxPixels }

ConvFrames ==
  UNION { { [h |-> d[1], w |-> d[2], px |-> p] :
              p \in [1..d[1] -> [1..d[2] -> ConvPixels]] } :
          d \in ConvShapes }

\* Frames as wide as a terminal, of at most MaxRows rows: of one gray, of a
\* dark and a light half, or of rows that alternate; one frame of 50 rows
\* and 100 columns of one gray; and one of 4 rows and 49 columns, whose
\* scaled height at width 49 is 2 but falls below 2 in doubles.
MaxRows == 4

WidePixel(pattern, y, x, w) ==
  CASE pattern = "flat" -> Gray(128)
    [] pattern = "halves" -> IF 2 * x <= w THEN Gray(40) ELSE Gray(200)
    [] pattern = "rows" -> IF y % 2 = 1 THEN << 200, 90, 40 >> ELSE Gray(255)

WideFrame(h, w, pattern) ==
  [h |-> h, w |-> w,
   px |-> [y \in 1..h |-> [x \in 1..w |-> WidePixel(pattern, y, x, w)]]]

WideFrames ==
  { WideFrame(d[1], d[2], d[3]) :
      d \in (1..MaxRows) \X {20, 22} \X {"flat", "halves", "rows"} }
    \cup { WideFrame(50, 100, "flat"), WideFrame(4, 49, "halves") }

WideWidths == {20, 21, 40, 49}

\* The widths of the calls: any for a frame that cannot be converted, else
\* those that do not enlarge the frame.
ConvWidths(f) ==
  IF cvtColorFails(f) THEN 0..MaxPixels
  ELSE IF f.w <= MaxPixels THEN 1..f.w
  ELSE { w \in WideWidths : w <= f.w }

InitConv ==
  /\ isWindows = FALSE
  /\ isTTY = TRUE
  /\ stderrShared = FALSE
  /\ pc = "call"
  /\ permission = "pending"
  /\ scheme \in DOMAIN COLOR_SCHEMES
  /\ retries = 0
  /\ capState = "none"
  /\ releases = 0
  /\ termMode = "cooked"
  /\ savedMode = "none"
  /\ restores = 0
  /\ out = << >>
  /\ term = << >>
  /\ cursor = "shown"
  /\ shows = 0
  /\ line_buffering = FALSE
  /\ buffer_size = BufferSize(FALSE, FALSE)
  /\ err_prompt = ""
  /\ err = << >>
  /\ rc = -1
  /\ exc = "none"
  /\ ret = FALSE
  /\ frame \in ConvFrames \cup WideFrames
  /\ ascii_width \in ConvWidths(frame)
  /\ ascii_frame = << >>
  /\ osBuf = << >>
  /\ pyBuf = << >>
  /\ stdinEOF = FALSE
  /\ key = "none"
  /\ reads = 0
  /\ converts = 0
  /\ draws = 0
  /\ polls = 0
  /\ intrLog = << >>
  /\ columns = 25
  /\ term_width = 0
  /\ calls = << >>
  /\ sample = 0
  /\ glyph_index = -1
  /\ color_index = -1
  /\ local_resized = << >>
  /\ local_lines = << >>
  /\ local_line_parts = << >>
  /\ local_last_code = NoCode
  /\ row_no = 0
  /\ cell_no = 0

\* One call frame_to_ascii(frame, ascii_width, scheme), lines 63-96.
CallConverter ==
  /\ pc = "call"
  /\ LET result == frame_to_ascii(frame, ascii_width, COLOR_SCHEMES[scheme])
     IN  /\ ascii_frame' = result.s
         /\ exc' = result.error
         /\ pc' = IF result.ok THEN "returned" ELSE "raised"
  /\ UNCHANGED << platformVars, callVars,
                  promptVars, capVars, rawVars, stdoutVars, err,
                  rc, ret, frame, ascii_width, term_width, reads, converts,
                  draws, inputVars, stdinEOF, intrLog, columns >>

NextConv == CallConverter

SpecConv == InitConv /\ [][NextConv]_vars

----------------------------------------------------------------------------
(* A session of calls of frame_to_ascii: at most MaxCalls calls, each with *)
(* any of a few frames and any scheme, recorded with their results.        *)

MaxCalls == 3

SessionFrames ==
  { [h |-> 1, w |-> 3, px |-> << << Gray(0), Gray(255), Gray(0) >> >>],
    [h |-> 1, w |-> 3, px |-> << << Gray(255), Gray(255), Gray(0) >> >>],
    [h |-> 4, w |-> 1, px |-> << << Gray(0) >>, << Gray(0) >>,
                                 << Gray(255) >>, << Gray(255) >> >>] }

InitSession ==
  /\ isWindows = FALSE
  /\ isTTY = TRUE
  /\ stderrShared = FALSE
  /\ pc = "session"
  /\ permission = "pending"
  /\ scheme = "0"
  /\ retries = 0
  /\ capState = "none"
  /\ releases = 0
  /\ termMode = "cooked"
  /\ savedMode = "none"
  /\ restores = 0
  /\ out = << >>
  /\ term = << >>
  /\ cursor = "shown"
  /\ shows = 0
  /\ line_buffering = FALSE
  /\ buffer_size = BufferSize(FALSE, FALSE)
  /\ err_prompt = ""
  /\ err = << >>
  /\ rc = -1
  /\ exc = "none"
  /\ ret = FALSE
  /\ frame = NoFrame
  /\ ascii_width = 0
  /\ ascii_frame = << >>
  /\ osBuf = << >>
  /\ pyBuf = << >>
  /\ stdinEOF = FALSE
  /\ key = "none"
  /\ reads = 0
  /\ converts = 0
  /\ draws = 0
  /\ polls = 0
  /\ intrLog = << >>
  /\ columns = 25
  /\ term_width = 0
  /\ calls = << >>
  /\ sample = 0
  /\ glyph_index = -1
  /\ color_index = -1
  /\ local_resized = << >>
  /\ local_lines = << >>
  /\ local_line_parts = << >>
  /\ local_last_code = NoCode
  /\ row_no = 0
  /\ cell_no = 0

\* Lines 64-71: the samples frame_to_ascii quantises, the equalised, resized
\* gray image.
ResizedOf(f, width) ==
  Resize(equalizeHist(cvtColor(f), f.h, f.w), f.h, f.w, width,
         ResizedHeight(f.h, f.w, width))

\* A call frame_to_ascii(f, f.w, COLOR_SCHEMES[k]) from its entry to line 73.
\* A call that raises at line 64 or 71, or returns at line 68, ends here.
CallInSession ==
  /\ pc = "session"
  /\ Len(calls) < MaxCalls
  /\ \E f \in SessionFrames, k \in {"1", "2", "4"} :
       /\ frame' = f
       /\ ascii_width' = f.w
       /\ scheme' = k
       /\ IF cvtColorFails(f) \/ f.w = 0 \/ f.h = 0
          THEN LET result == frame_to_ascii(f, f.w, COLOR_SCHEMES[k])
               IN  /\ ascii_frame' = result.s
                   /\ exc' = result.error
                   /\ calls' = Append(calls,
                                      [frame |-> f, width |-> f.w,
                                       scheme |-> k, ok |-> result.ok,
                                       s |-> result.s])
                   /\ UNCHANGED << pc, local_resized >>
          ELSE /\ local_resized' = ResizedOf(f, f.w)
               /\ pc' = "palette"
               /\ UNCHANGED << ascii_frame, exc, calls >>
  /\ UNCHANGED << platformVars, permission, retries, capVars, rawVars,
                  stdoutVars, err, rc, ret, term_width, reads, converts,
                  draws, inputVars, stdinEOF, intrLog, columns, sample,
                  glyph_index, color_index, local_lines, local_line_parts, local_last_code,
                  row_no, cell_no >>

\* Lines 75-81: without a palette the glyphs of the rows are joined and
\* returned; with one, color_indices is computed and lines = [].
CheckPalette ==
  /\ pc = "palette"
  /\ IF COLOR_SCHEMES[scheme].mono
     THEN LET s == JoinLines([y \in 1..Len(local_resized) |-> MonoRow(local_resized[y])])
          IN  /\ ascii_frame' = s
              /\ exc' = "none"
              /\ calls' = Append(calls,
                                 [frame |-> frame, width |-> ascii_width,
                                  scheme |-> scheme, ok |-> TRUE, s |-> s])
              /\ pc' = "session"
              /\ UNCHANGED << local_lines, row_no >>
     ELSE /\ local_lines' = << >>
          /\ row_no' = 0
          /\ pc' = "next_row"
          /\ UNCHANGED << ascii_frame, exc, calls >>
  /\ UNCHANGED << platformVars, promptVars, capVars, rawVars, stdoutVars,
                  err, rc, ret, frame, ascii_width, term_width, reads,
                  converts, draws, inputVars, stdinEOF, intrLog, columns,
                  sample, glyph_index, color_index, local_resized, local_line_parts,
                  local_last_code, cell_no >>

\* last_code = None is missing: a row starts with the last_code that the
\* row before it, or the call before this one, left.
NextRow_KeepsLastCode ==
  /\ pc = "next_row"
  /\ IF row_no < Len(local_resized)
     THEN /\ row_no' = row_no + 1
          /\ local_line_parts' = << >>
          /\ cell_no' = 0
          /\ pc' = "next_cell"
     ELSE /\ pc' = "join"
          /\ UNCHANGED << row_no, local_line_parts, cell_no >>
  /\ UNCHANGED << platformVars, promptVars, capVars, rawVars, stdoutVars,
                  tickVars, inputVars, err, rc, exc, stdinEOF, intrLog,
                  columns, calls, sample, glyph_index, color_index, local_resized,
                  local_lines, local_last_code >>

\* Lines 82-84: the loop over the rows takes the next row, with
\* line_parts = [] and last_code = None, or is left after the last one.
NextRow ==
  /\ pc = "next_row"
  /\ IF row_no < Len(local_resized)
     THEN /\ row_no' = row_no + 1
          /\ local_line_parts' = << >>
          /\ local_last_code' = NoCode
          /\ cell_no' = 0
          /\ pc' = "next_cell"
     ELSE /\ pc' = "join"
          /\ UNCHANGED << row_no, local_line_parts, local_last_code, cell_no >>
  /\ UNCHANGED << platformVars, promptVars, capVars, rawVars, stdoutVars,
                  tickVars, inputVars, err, rc, exc, stdinEOF, intrLog,
                  columns, calls, sample, glyph_index, color_index, local_resized,
                  local_lines >>

\* Lines 85-91: the loop over the cells of the row takes the next cell, or
\* is left after the last one.
NextCell ==
  /\ pc = "next_cell"
  /\ IF cell_no < Len(local_resized[row_no])
     THEN LET palette == COLOR_SCHEMES[scheme].palette
              value == local_resized[row_no][cell_no + 1]
              char == Glyph(ASCII_CHARS[GlyphIndex(value) + 1])
              color_code == palette[ColorIndex(value, palette) + 1]
          IN  /\ cell_no' = cell_no + 1
              /\ IF SwitchNeeded(color_code, local_last_code)
                 THEN /\ local_line_parts' = local_line_parts
                                         \o << ColorSwitch(color_code), char >>
                      /\ local_last_code' = color_code
                 ELSE /\ local_line_parts' = Append(local_line_parts, char)
                      /\ local_last_code' = local_last_code
              /\ pc' = pc
     ELSE /\ pc' = "row_end"
          /\ UNCHANGED << cell_no, local_line_parts, local_last_code >>
  /\ UNCHANGED << platformVars, promptVars, capVars, rawVars, stdoutVars,
                  tickVars, inputVars, err, rc, exc, stdinEOF, intrLog,
                  columns, calls, sample, glyph_index, color_index, local_resized,
                  local_lines, row_no >>

\* Lines 92-94: the row is closed and appended to lines.
EndRow ==
  /\ pc = "row_end"
  /\ local_line_parts' = local_line_parts \o RowEnd(local_last_code)
  /\ local_lines' = Append(local_lines, local_line_parts')
  /\ pc' = "next_row"
  /\ UNCHANGED << platformVars, promptVars, capVars, rawVars, stdoutVars,
                  tickVars, inputVars, err, rc, exc, stdinEOF, intrLog,
                  columns, calls, sample, glyph_index, color_index, local_resized,
                  local_last_code, row_no, cell_no >>

\* Line 96: the lines are joined and returned.
ReturnLines ==
  /\ pc = "join"
  /\ ascii_frame' = JoinLines(local_lines)
  /\ exc' = "none"
  /\ calls' = Append(calls,
                     [frame |-> frame, width |-> ascii_width,
                      scheme |-> scheme, ok |-> TRUE, s |-> ascii_frame'])
  /\ pc' = "session"
  /\ UNCHANGED << platformVars, promptVars, capVars, rawVars, stdoutVars,
                  err, rc, ret, frame, ascii_width, term_width, reads,
                  converts, draws, inputVars, stdinEOF, intrLog, columns,
                  sample, glyph_index, color_index, local_resized,
                  local_lines, local_line_parts, local_last_code, row_no,
                  cell_no >>

NextSession ==
  \/ CallInSession
  \/ CheckPalette
  \/ NextRow
  \/ NextCell
  \/ EndRow
  \/ ReturnLines

SpecSession == InitSession /\ [][NextSession]_vars

----------------------------------------------------------------------------
(* The quantisation of lines 72-73 and 80 on its own: every 8-bit sample    *)
(* with every palette.                                                      *)

InitQuant ==
  /\ isWindows = FALSE
  /\ isTTY = TRUE
  /\ stderrShared = FALSE
  /\ pc = "quantize"
  /\ permission = "pending"
  /\ scheme \in { k \in DOMAIN COLOR_SCHEMES : ~COLOR_SCHEMES[k].mono }
  /\ retries = 0
  /\ capState = "none"
  /\ releases = 0
  /\ termMode = "cooked"
  /\ savedMode = "none"
  /\ restores = 0
  /\ out = << >>
  /\ term = << >>
  /\ cursor = "shown"
  /\ shows = 0
  /\ line_buffering = FALSE
  /\ buffer_size = BufferSize(FALSE, FALSE)
  /\ err_prompt = ""
  /\ err = << >>
  /\ rc = -1
  /\ exc = "none"
  /\ ret = FALSE
  /\ frame = NoFrame
  /\ ascii_width = 0
  /\ ascii_frame = << >>
  /\ osBuf = << >>
  /\ pyBuf = << >>
  /\ stdinEOF = FALSE
  /\ key = "none"
  /\ reads = 0
  /\ converts = 0
  /\ draws = 0
  /\ polls = 0
  /\ intrLog = << >>
  /\ columns = 25
  /\ term_width = 0
  /\ calls = << >>
  /\ sample \in 0..255
  /\ glyph_index = -1
  /\ color_index = -1
  /\ local_resized = << >>
  /\ local_lines = << >>
  /\ local_line_parts = << >>
  /\ local_last_code = NoCode
  /\ row_no = 0
  /\ cell_no = 0

\* Lines 72-73 and 80 for one cell.
Quantize ==
  /\ pc = "quantize"
  /\ glyph_index' = GlyphIndex(sample)
  /\ color_index' = ColorIndex(sample, COLOR_SCHEMES[scheme].palette)
  /\ pc' = "quantized"
  /\ UNCHANGED << platformVars, promptVars, capVars, rawVars, stdoutVars, err,
                  rc, exc, tickVars, inputVars, stdinEOF, intrLog, columns,
                  calls, sample, local_resized, local_lines, local_line_parts,
                  local_last_code, row_no, cell_no >>

NextQuant == Quantize

SpecQuant == InitQuant /\ [][NextQuant]_vars

----------------------------------------------------------------------------
(* Properties of main *)

Count(seq, e) == Cardinality({ i \in DOMAIN seq : seq[i] = e })

InterruptedInLoop == \E i \in DOMAIN intrLog : intrLog[i] \in LoopPCs

\* The state main is in after an orderly stop of the loop.
CleanStop ==
  /\ pc = "done"
  /\ rc = 0
  /\ exc = "none"
  /\ capState = "released"
  /\ releases = 1
  /\ shows = 1
  /\ cursor = "shown"
  /\ out = << >>
  /\ Len(term) >= 3
  /\ SubSeq(term, Len(term) - 2, Len(term))
       = << Tok("ESC[?25h"), Tok("ESC[0m"), Tok("NL") >>
  /\ termMode = "cooked"
  /\ (~isWindows /\ isTTY => restores = 1)
  /\ (isWindows \/ ~isTTY => restores = 0)

\* C1: when main has ended on a failure path (the device could not be
\* opened, a read failed, or an interrupt arrived), every resource that was
\* acquired has been given back exactly once: the capture handle is released,
\* the cursor is shown again with the attributes reset, and the terminal
\* input mode is the one found at the start.
C1_CleanupOnEveryFailurePath ==
  (/\ Terminated
   /\ \/ capState = "failed"
      \/ Count(err, "capture_failed") > 0
      \/ intrLog # << >>)
  => /\ capState # "opened"
     /\ (capState = "released" => releases = 1 /\ shows = 1)
     /\ releases <= 1 /\ shows <= 1 /\ restores <= 1
     /\ cursor = "shown"
     /\ termMode = "cooked"
     /\ (savedMode # "none" => restores = 1)

\* C2: an interrupt that arrives while the loop runs ends main in the state
\* a quit key ends it in: the loop is left, the device is released, the
\* show-cursor and reset sequences are written, the input mode is restored
\* and main returns 0, the interrupt not leaving main.
C2_InterruptStopsLikeQuitKey ==
  /\ (/\ Terminated
      /\ intrLog # << >>
      /\ \A i \in DOMAIN intrLog :
           intrLog[i] \in LoopPCs)
     => CleanStop
  /\ (Terminated /\ intrLog = << >> /\ key \in {"q", "Q", "ESC"}) => CleanStop
  /\ (Len(intrLog) = 1 /\ InterruptedInLoop)
     => pc \in {"exit_raw", "release", "show", "show_flush", "return", "done"}

C2_Witness ==
  /\ pc = "done"
  /\ intrLog = << "write_frame" >>
  /\ rc = 0
  /\ reads = 1

\* The loop has just been left after a successful read with the whole tick
\* done: converted, drawn, flushed and polled.
TickCompleted ==
  /\ polls = reads
  /\ converts = reads
  /\ draws = reads
  /\ out = << >>
  /\ term = TickOutput(COLOR_SCHEMES[scheme].name, ascii_frame)

\* C3 as stated: whenever the loop is left after a successful read, be it on
\* a quit key or on an interrupt, the tick of that read has completed.
C3_NoMidTickCancellation ==
  (pc = "exit_raw" /\ ret) => TickCompleted

\* C3: a quit key never aborts a tick: when the loop is left without an
\* interrupt after a successful read, the tick has been converted, drawn and
\* flushed and the key was seen by the one poll of that tick, which follows
\* the flush.  An interrupt is not deferred: the loop is left at the
\* statement where it arrives.
C3_QuitKeyNeverAbortsTick ==
  /\ (pc = "exit_raw" /\ ret /\ ~InterruptedInLoop)
     => (TickCompleted /\ key \in {"q", "Q", "ESC"})
  /\ polls <= reads
  /\ (pc = "poll" => polls = reads - 1 /\ out = << >>)
  /\ (pc \in {"getkey", "check"} => polls = reads /\ out = << >>)
  /\ (InterruptedInLoop => pc \notin LoopPCs)

C3_Witness ==
  /\ pc = "exit_raw"
  /\ key = "q"
  /\ intrLog = << >>
  /\ reads = 1
  /\ draws = 1

\* C4 as stated: once a read has failed the loop is left in that tick and,
\* however it is left, the failure has been reported exactly once.
C4_ReadFailureReportedOnce ==
  (reads > 0 /\ ~ret /\ pc \notin LoopPCs)
    => Count(err, "capture_failed") = 1

\* C4: once a read has failed the loop is left in that tick: nothing is
\* converted, drawn or polled for the tick and the loop, hence read(), is
\* never entered again.  The failure is reported at most once: once when
\* line 152 was executed, and not at all when an interrupt arrived after
\* the failed read and before the report.
C4_ReadFailureEndsSession ==
  /\ (reads > 0 /\ ~ret)
     => /\ pc \notin LoopPCs \ {"read_failed", "read_break"}
        /\ converts = reads - 1
        /\ draws = reads - 1
        /\ polls = reads - 1
        /\ (pc \in {"read_failed", "read_break", "exit_raw", "release", "show"}
              => out = << >>)
        /\ (pc = "read_failed" => Count(err, "capture_failed") = 0)
        /\ (pc = "read_break" => Count(err, "capture_failed") = 1)
        /\ (pc \notin LoopPCs
              => Count(err, "capture_failed")
                   = IF \E i \in DOMAIN intrLog : intrLog[i] = "read_failed"
                     THEN 0 ELSE 1)
  /\ (ret => Count(err, "capture_failed") = 0)

C4_Witness ==
  /\ pc = "done"
  /\ ~ret
  /\ reads = 2
  /\ intrLog = << >>
  /\ err = << "capture_failed" >>

\* C5: after the poll of a tick and the test of its key, the loop has been
\* left if the key is q, Q or Escape, so that no further frame is read; with any other key or none
\* it is still running, about to start the next tick.
C5_QuitKeysStopTheLoop ==
  /\ (reads > 0 /\ polls = reads /\ key \in {"q", "Q", "ESC"})
     => pc \notin LoopPCs \ {"check"}
  /\ (reads > 0 /\ polls = reads /\ key \notin {"q", "Q", "ESC"}
        /\ intrLog = << >>)
     => pc \in {"getkey", "check", "sleep", "read"}

C5_Witness ==
  /\ pc = "exit_raw"
  /\ key = "Q"
  /\ polls = reads
  /\ reads = 2

\* C6: at any point of the loop a poll takes at most one keypress out of
\* the pending input, returns the oldest pending keypress when there is one,
\* and leaves the others to the polls that follow.
C6_PollTakesOnePendingKey ==
  pc \in LoopPCs =>
    LET pending == pyBuf \o osBuf
        r == PollInput(isWindows, osBuf, pyBuf, stdinEOF)
    IN  /\ Len(r.py \o r.os) >= Len(pending) - 1
        /\ (pending # << >>
              => r.key = Head(pending) /\ r.py \o r.os = Tail(pending))
        /\ (pending = << >>
              => r.key \in {NoKey, EndOfFile} /\ r.py \o r.os = pending)

\* C7: main returns 1 exactly when the device could not be opened, and 0
\* on every other path on which it returns.
C7_ExitCodes ==
  /\ (pc = "done" => rc \in {0, 1})
  /\ (pc = "done" /\ capState = "failed" => rc = 1)
  /\ (pc = "done" /\ capState # "failed" => rc = 0)
  /\ (pc # "done" => rc = -1)
  /\ (capState = "failed"
        => pc \in {"open_failed", "failed_return", "done", "raised"})
  /\ (capState = "failed" /\ intrLog = << >> /\ Terminated => pc = "done")

C7_Witness ==
  /\ pc = "done"
  /\ rc = 1
  /\ err = << "camera_unavailable" >>

\* C8: the loop runs only with the permission granted, then a scheme
\* chosen, then the device opened; after a refusal, end of input included,
\* main has ended without opening the device, reading a frame or writing a
\* control sequence.
C8_RunningNeedsPermissionSchemeDevice ==
  /\ (pc \in LoopPCs
        => permission = "granted" /\ scheme # "0" /\ capState = "opened")
  /\ (scheme # "0" => permission = "granted")
  /\ (capState # "none" => scheme # "0")
  /\ (permission = "declined"
        => /\ pc \in {"denied", "denied_return", "done", "raised"}
           /\ (intrLog = << >> /\ Terminated => pc = "done" /\ rc = 0)
           /\ capState = "none"
           /\ reads = 0
           /\ cursor = "shown"
           /\ termMode = "cooked"
           /\ \A i \in DOMAIN (term \o out) : ~IsEscape((term \o out)[i]))

C8_Witness ==
  /\ permission = "declined"
  /\ stdinEOF
  /\ pc = "done"
  /\ line_buffering
  /\ out = << >>
  /\ term = << Text("permission_prompt"), Text("denied"), Newline >>

----------------------------------------------------------------------------
(* Properties of frame_to_ascii *)

\* C9: the conversion of a frame without rows or without columns returns
\* the empty string and does not fail, whatever the width and the scheme.
C9_EmptyFrameGivesEmptyString ==
  (pc \in {"returned", "raised"} /\ (frame.h = 0 \/ frame.w = 0))
  => (pc = "returned" /\ ascii_frame = << >>)

\* The rows of an output: the tokens between two newlines.
RECURSIVE SplitRows(_)
SplitRows(s) ==
  IF \E i \in DOMAIN s : s[i].k = "NL"
  THEN LET i == CHOOSE i \in DOMAIN s :
                  s[i].k = "NL" /\ \A j \in 1..(i - 1) : s[j].k # "NL"
       IN  << SubSeq(s, 1, i - 1) >> \o SplitRows(SubSeq(s, i + 1, Len(s)))
  ELSE << s >>

IsSwitch(t) == t.k = "ESC[38;5;m"

\* One row of colored output against the samples of its cells.
RowObeysRunLength(row, samples, palette) ==
  LET glyphs == { i \in DOMAIN row : row[i].k = "ch" }
      switches == { i \in DOMAIN row : IsSwitch(row[i]) }
      Code(x) == palette[((samples[x] * (Len(palette) - 1)) \div 255) + 1]
      Pos(x) == CHOOSE i \in glyphs :
                  Cardinality({ j \in glyphs : j <= i }) = x
      Preceded(x) == Pos(x) > 1 /\ IsSwitch(row[Pos(x) - 1])
      InEffect(x) ==
        LET before == { j \in switches : j < Pos(x) }
        IN  IF before = {} THEN NoCode
            ELSE row[CHOOSE j \in before : \A k \in before : k <= j].n
  IN  /\ Cardinality(glyphs) = Len(samples)
      /\ Len(row) = Cardinality(glyphs) + Cardinality(switches) + 1
      /\ row[Len(row)] = Tok("ESC[0m")
      /\ \A j \in switches : j + 1 \in glyphs
      /\ \A x \in 1..Len(samples) :
           /\ Preceded(x) <=> (x = 1 \/ Code(x) # Code(x - 1))
           /\ InEffect(x) = Code(x)
      /\ \A j, k \in switches :
           (j < k /\ \A m \in switches : ~(j < m /\ m < k))
             => row[j].n # row[k].n

\* C10: in the colored output of a frame, within each row a color-switch
\* escape stands immediately before a cell exactly when the cell is the
\* first of its row or its code differs from the code of the cell before
\* it; two successive escapes of a row never carry the same code, and the
\* color in effect at each glyph is the palette code of its sample.
C10_ColorSwitchOnlyOnChange ==
  (pc = "returned" /\ ~COLOR_SCHEMES[scheme].mono)
  => LET rows == SplitRows(ascii_frame)
         resized == ResizedOf(frame, ascii_width)
     IN  /\ Len(rows) = Len(resized)
         /\ \A y \in DOMAIN rows :
              RowObeysRunLength(rows[y], resized[y],
                                COLOR_SCHEMES[scheme].palette)

\* A row of three cells, the first two of one color.
C10_Witness ==
  /\ pc = "returned"
  /\ scheme = "3"
  /\ Len(ascii_frame) = 6
  /\ IsSwitch(ascii_frame[1])
  /\ ~IsSwitch(ascii_frame[3])
  /\ IsSwitch(ascii_frame[4])
  /\ ascii_frame[4].n # ascii_frame[1].n
  /\ ascii_frame[6] = Tok("ESC[0m")

\* C11: in the output of a conversion every row with a color-switch escape
\* holds exactly one reset escape, as its last element, and every row
\* without a color-switch escape holds no reset escape.
C11_ResetClosesColoredRows ==
  pc = "returned"
  => \A y \in DOMAIN SplitRows(ascii_frame) :
       LET row == SplitRows(ascii_frame)[y]
           resets == { i \in DOMAIN row : row[i] = Tok("ESC[0m") }
       IN  IF \E i \in DOMAIN row : IsSwitch(row[i])
           THEN resets = { Len(row) }
           ELSE resets = {}

\* Two colored rows, each closed by its reset.
C11_Witness ==
  /\ pc = "returned"
  /\ scheme = "2"
  /\ Len(SplitRows(ascii_frame)) = 2
  /\ \A y \in 1..2 :
       LET row == SplitRows(ascii_frame)[y]
       IN  IsSwitch(row[1]) /\ row[Len(row)] = Tok("ESC[0m")

\* C12: the monochrome output of a conversion holds glyphs of the ramp and
\* the newlines between the rows, nothing else: no color-switch escape, no
\* reset escape, and no glyph that is the escape character.
C12_MonochromeHasNoEscapes ==
  (pc = "returned" /\ scheme = "1")
  => \A i \in DOMAIN ascii_frame :
       LET t == ascii_frame[i]
       IN  /\ t.k \in {"ch", "NL"}
           /\ ~IsSwitch(t)
           /\ t # Tok("ESC[0m")
           /\ (t.k = "ch"
                 => /\ \E n \in DOMAIN ASCII_CHARS : t.c = ASCII_CHARS[n]
                    /\ t.c \notin {"ESC", "\\033", "\\x1b"})

\* Three monochrome rows of one glyph.
C12_Witness ==
  /\ pc = "returned"
  /\ scheme = "1"
  /\ Len(ascii_frame) = 5
  /\ ascii_frame[2] = Tok("NL")
  /\ ascii_frame[4] = Tok("NL")

\* C13: for a frame of at least one row and one column, the number of rows
\* of the output is max(1, round(height / original_width * width * 0.5)),
\* the scaled height rounded to the nearest integer.
C13_RowsRoundedToNearest ==
  (pc = "returned" /\ frame.h >= 1 /\ frame.w >= 1)
  => LET nearest == RoundHalfEven(frame.h * ascii_width, 2 * frame.w)
     IN  Len(SplitRows(ascii_frame)) = IF nearest > 1 THEN nearest ELSE 1

\* The glyphs of a row, escapes left out.
GlyphsOf(row) == SelectSeq(row, LAMBDA t : t.k = "ch")

\* C19: for a frame with rows and columns and a width of at least 20, the
\* output has as many rows as the converter resizes to, at least one, every
\* row has exactly width glyphs, cells of equal brightness show the same
\* glyph, and a frame of one color gives rows of one glyph.
C19_GridOfWidthByHeightGlyphs ==
  (pc = "returned" /\ frame.h > 0 /\ frame.w > 0 /\ ascii_width >= 20)
  => LET rows == SplitRows(ascii_frame)
         target_height == ResizedHeight(frame.h, frame.w, ascii_width)
         resized == ResizedOf(frame, ascii_width)
         cells == (1..target_height) \X (1..ascii_width)
         grid == [y \in DOMAIN rows |-> GlyphsOf(rows[y])]
         levels == { resized[c[1]][c[2]] : c \in cells }
         GlyphsAt(level) ==
           { grid[c[1]][c[2]] : c \in { d \in cells :
                                          resized[d[1]][d[2]] = level } }
         uniform == \A y \in 1..frame.h : \A x \in 1..frame.w :
                      frame.px[y][x] = frame.px[1][1]
     IN  /\ target_height >= 1
         /\ Len(rows) = target_height
         /\ \A y \in DOMAIN rows : Len(grid[y]) = ascii_width
         /\ \A level \in levels : Cardinality(GlyphsAt(level)) = 1
         /\ (uniform => \A c \in cells : grid[c[1]][c[2]] = grid[1][1])

\* The frame of 50 rows and 100 columns of one gray at width 40: 10 rows of
\* 40 glyphs, all the same.
C19_Witness ==
  /\ pc = "returned"
  /\ scheme = "1"
  /\ frame.h = 50 /\ frame.w = 100
  /\ ascii_width = 40
  /\ Len(SplitRows(ascii_frame)) = 10
  /\ \A y \in 1..10 :
       /\ Len(SplitRows(ascii_frame)[y]) = 40
       /\ \A x \in 1..40 : SplitRows(ascii_frame)[y][x] = ascii_frame[1]

----------------------------------------------------------------------------
(* Further properties of main *)

\* C14: in every tick the frame is converted at max(20, columns - 1), where
\* columns is the width the terminal has in that tick: the width is never
\* below 20, is 20 for 10 columns, and follows a resize in the next tick.
C14_WidthFollowsTerminal ==
  pc \in {"write_home", "write_banner", "write_frame", "write_clear", "flush",
         "poll"}
  => /\ term_width = columns
     /\ ascii_width = IF columns - 1 > 20 THEN columns - 1 ELSE 20
     /\ ascii_width >= 20
     /\ (columns = 10 => ascii_width = 20)
     /\ \A y \in DOMAIN SplitRows(ascii_frame) :
          Len(GlyphsOf(SplitRows(ascii_frame)[y])) = ascii_width

\* The second tick converts at 20 for a terminal narrowed to 10 columns
\* after the first tick was drawn at 24.
C14_Witness ==
  /\ pc = "write_home"
  /\ reads = 2
  /\ columns = 10
  /\ ascii_width = 20
  /\ Len(GlyphsOf(SplitRows(ascii_frame)[1])) = 20
  /\ Len(GlyphsOf(SplitRows(term)[2])) = 24

\* C16: at every poll the terminal is in the immediate input mode, on
\* every platform and with or without a terminal on standard input, and
\* once the mode was entered the mode saved before is restored when the
\* loop has ended, by whatever path.
C16_ImmediateModeAtEveryPoll ==
  /\ (pc = "poll" => termMode = "cbreak")
  /\ (pc \in {"release", "show", "show_flush", "return", "done", "raised"}
        /\ savedMode # "none"
        => termMode = savedMode)

\* C17: when a tick polls the input, the terminal has received, in this
\* order and with nothing left unflushed: cursor to the top-left corner,
\* clear of the status line, the banner, the rendered frame, clear to the
\* end of the screen.  Nothing is unflushed either when the next frame is
\* read, and every frame read so far has been drawn.
C17_TickOutputOrderAndFlush ==
  /\ pc = "poll"
     => /\ out = << >>
        /\ draws = reads
        /\ LET n == Len(term)
               m == Len(ascii_frame)
           IN  /\ n = m + 9
               /\ term[1] = Tok("ESC[H")
               /\ term[2] = Tok("ESC[0K")
               /\ term[3] = Tok("ESC[1m")
               /\ term[4] = Text(COLOR_SCHEMES[scheme].name)
               /\ term[5] = Text("banner")
               /\ term[6] = Tok("ESC[0m")
               /\ term[7] = Tok("NL")
               /\ SubSeq(term, 8, 7 + m) = ascii_frame
               /\ term[n - 1] = Tok("ESC[0m")
               /\ term[n] = Tok("ESC[J")
  /\ (pc \in {"sleep", "read"} => out = << >>)
  /\ (pc \in {"read", "poll", "sleep"} => draws = converts)
  /\ (pc = "read" /\ ret => draws = reads /\ polls = reads)

\* The second tick is at its poll, its frame on the terminal.
C17_Witness ==
  /\ pc = "poll"
  /\ reads = 2
  /\ draws = 2
  /\ out = << >>
  /\ term[1] = Tok("ESC[H")
  /\ term[Len(term)] = Tok("ESC[J")

\* C20: while frames keep coming, a q, Q or Escape that was typed and is
\* waiting to be read is eventually examined, so that the loop is left,
\* whatever was typed before it.
C20_TypedQuitKeyStopsLoop ==
  (/\ pc \in LoopPCs
   /\ \E i \in DOMAIN (pyBuf \o osBuf) :
        (pyBuf \o osBuf)[i] \in {"q", "Q", "ESC"})
  ~> (pc \notin LoopPCs)

----------------------------------------------------------------------------
(* Properties of a session of conversions *)

\* C15: two calls of the converter with the same frame, width and scheme
\* return the same output, wherever they stand in a session and whatever
\* was converted between them, and what a call returns is what the function
\* of lines 63-96 gives for its own arguments: nothing that an earlier call
\* left in resized, lines, line_parts or last_code is read by a later one.
C15_SameInputSameOutput ==
  /\ \A i, j \in DOMAIN calls :
       (/\ calls[i].frame = calls[j].frame
        /\ calls[i].width = calls[j].width
        /\ calls[i].scheme = calls[j].scheme)
       => (calls[i].ok = calls[j].ok /\ calls[i].s = calls[j].s)
  /\ \A i \in DOMAIN calls :
       LET result == frame_to_ascii(calls[i].frame, calls[i].width,
                                    COLOR_SCHEMES[calls[i].scheme])
       IN  calls[i].ok = result.ok /\ calls[i].s = result.s

\* The same colored conversion twice, another one in between that left
\* another last_code behind.
C15_Witness ==
  /\ pc = "session"
  /\ Len(calls) = 3
  /\ calls[1].scheme = "2"
  /\ calls[3].scheme = "2"
  /\ calls[1].frame = calls[3].frame
  /\ calls[2].scheme = "4"
  /\ calls[2].frame # calls[1].frame
  /\ calls[3].ok
  /\ Len(calls[3].s) = 6
  /\ local_last_code # NoCode

----------------------------------------------------------------------------
(* Properties of the quantisation *)

\* C18: for an 8-bit sample s the glyph index is floor(s / 255 * (N - 1)) and
\* the color index floor(s / 255 * (M - 1)), N glyphs in the ramp and M codes
\* in the palette: each computed from the sample alone, within 0..N-1 and
\* 0..M-1, not decreasing as s grows, the first entry for 0 and the last for
\* 255.
C18_IndicesAreFloorsInRange ==
  pc = "quantized"
  => LET N == Len(ASCII_CHARS)
         M == Len(COLOR_SCHEMES[scheme].palette)
     IN  /\ 255 * glyph_index <= sample * (N - 1)
         /\ sample * (N - 1) < 255 * (glyph_index + 1)
         /\ 255 * color_index <= sample * (M - 1)
         /\ sample * (M - 1) < 255 * (color_index + 1)
         /\ glyph_index \in 0..(N - 1)
         /\ color_index \in 0..(M - 1)
         /\ \A t \in 0..sample :
              /\ GlyphIndex(t) <= glyph_index
              /\ ColorIndex(t, COLOR_SCHEMES[scheme].palette) <= color_index
         /\ (sample = 0 => glyph_index = 0 /\ color_index = 0)
         /\ (sample = 255 => glyph_index = N - 1 /\ color_index = M - 1)

\* The brightest sample takes the last glyph and the last of 13 codes.
C18_Witness ==
  /\ pc = "quantized"
  /\ scheme = "3"
  /\ sample = 255
  /\ glyph_index = 70
  /\ color_index = 12

====
